---------------------------- MODULE Spec2Model ----------------------------
(***************************************************************************)
(* Model of sapphireppplot/numpyify.py: the conversion of ParaView cell    *)
(* data into coordinate-ordered numpy arrays.                              *)
(*                                                                         *)
(* A data source ("solution") is a function from time coordinates to       *)
(* snapshots.  A snapshot holds the raw cell-centre point list and the     *)
(* cell-data arrays, both indexed by the raw cell number.  Field names are *)
(* sequences of tokens, the last token being the part of the name that     *)
(* str.endswith / str.removesuffix look at ("E_X" is <<"E", "_X">>).       *)
(***************************************************************************)
EXTENDS Integers, Sequences, FiniteSets, TLC

(***************************************************************************)
(* Bounds of the model.                                                    *)
(***************************************************************************)
\* Longest raw point list drawn freely (every sequence over the cube).
MaxN == 3
\* Largest extent of a full Cartesian grid along one axis.
MaxDim == 2
\* Number of time coordinates the data source can be evaluated at.
MaxT == 2
\* Longest array_names list drawn freely.
MaxNames == 2
\* Number of successive extraction calls on one data source.
MaxCalls == 2
\* Number of command-line arguments of the script.
MaxArgs == 2
\* Number of lines of a parameter file.
MaxLines == 4
\* Largest expansion order l_max.
MaxOrder == 5

(***************************************************************************)
(* Small helpers on sequences.                                             *)
(***************************************************************************)
Range(s) == {s[i] : i \in DOMAIN s}

SeqsUpTo(S, n) == UNION {[1..k -> S] : k \in 0..n}

Reverse(s) == [i \in 1..Len(s) |-> s[Len(s) + 1 - i]]

Identity(n) == [i \in 1..n |-> i]

(***************************************************************************)
(* Field names (numpyify.py lines 129-145).                                *)
(***************************************************************************)
\* str.endswith(suffix)
EndsWith(name, suffix) == Len(name) > 0 /\ name[Len(name)] = suffix

\* str.removesuffix(suffix), used only where EndsWith holds
RemoveSuffix(name, suffix) ==
    IF EndsWith(name, suffix) THEN SubSeq(name, 1, Len(name) - 1) ELSE name

\* lines 130-145: the (vec_component, base_array_name) pair of a name that
\* does not end in _Magnitude; vec_component is 0-based, -1 for "no component"
VecComponentMixed(array_name) ==
    IF EndsWith(array_name, "_X") THEN 0
    ELSE IF EndsWith(array_name, "_Y") THEN 2
    ELSE IF EndsWith(array_name, "_Z") THEN 1
    ELSE -1

VecComponent(array_name) ==
    IF EndsWith(array_name, "_X") THEN 0
    ELSE IF EndsWith(array_name, "_Y") THEN 1
    ELSE IF EndsWith(array_name, "_Z") THEN 2
    ELSE -1

BaseArrayName(array_name) ==
    IF EndsWith(array_name, "_X") THEN RemoveSuffix(array_name, "_X")
    ELSE IF EndsWith(array_name, "_Y") THEN RemoveSuffix(array_name, "_Y")
    ELSE IF EndsWith(array_name, "_Z") THEN RemoveSuffix(array_name, "_Z")
    ELSE array_name

(***************************************************************************)
(* The data source.                                                        *)
(***************************************************************************)
Coord == {0, 1}
Cube == Coord \X Coord \X Coord
Times == 1..MaxT

\* The arrays every snapshot carries: scalar field f, vector field E.
ScalarName == <<"f">>
VectorName == <<"E">>

\* The value of a field at raw cell k of the snapshot at time t.  The values
\* are pairwise distinct over (t, k, component), so a value identifies the
\* frame, the raw cell and the component it was read from.
ScalarValue(t, k) == 1000 * t + 10 * k
VectorValue(t, k) == <<1000 * t + 10 * k + 1, 1000 * t + 10 * k + 2,
                       1000 * t + 10 * k + 3>>

\* A snapshot: raw points and the cell data set (name -> array).  An array
\* has a number of components and one entry per raw cell.
Snapshot(t, pts) ==
    [points |-> pts,
     cellData |->
        (ScalarName :> [ncomp |-> 1,
                        vals |-> [k \in 1..Len(pts) |-> ScalarValue(t, k)]]) @@
        (VectorName :> [ncomp |-> 3,
                        vals |-> [k \in 1..Len(pts) |-> VectorValue(t, k)]])]

\* vtkDataSetAttributes.GetAbstractArray(name): the array, or None
None == [ncomp |-> 0, vals |-> <<>>]
GetAbstractArray(cellData, name) ==
    IF name \in DOMAIN cellData THEN cellData[name] ELSE None

IsNone(array) == array.ncomp = 0


(***************************************************************************)
(* numpy helpers.                                                          *)
(***************************************************************************)
\* A sort pass that lists positions with equal keys in the reverse of their
\* order in idx.
ArgSortTiesReversed(idx, key) ==
    LET n == Len(idx)
        before(q, p) == \/ key[idx[q]] < key[idx[p]]
                        \/ key[idx[q]] = key[idx[p]] /\ q > p
        rank == [p \in 1..n |-> Cardinality({q \in 1..n : before(q, p)}) + 1]
    IN  [r \in 1..n |-> idx[CHOOSE p \in 1..n : rank[p] = r]]

\* One stable indirect sort pass: the index sequence idx reordered by
\* key[idx[p]], positions with equal keys keeping their order in idx.
StableArgSort(idx, key) ==
    LET n == Len(idx)
        before(q, p) == \/ key[idx[q]] < key[idx[p]]
                        \/ key[idx[q]] = key[idx[p]] /\ q < p
        rank == [p \in 1..n |-> Cardinality({q \in 1..n : before(q, p)}) + 1]
    IN  [r \in 1..n |-> idx[CHOOSE p \in 1..n : rank[p] = r]]

\* np.lexsort(keys): an indirect stable sort on the keys taken one after
\* another, the first key sorted first, so the LAST key is the primary one.
RECURSIVE LexSortFrom(_, _)
LexSortFrom(idx, keys) ==
    IF keys = <<>> THEN idx
    ELSE LexSortFrom(StableArgSort(idx, Head(keys)), Tail(keys))

lexsort(keys) == LexSortFrom(Identity(Len(keys[1])), keys)

\* points[:, axis] (axis is 0-based as in the source)
Column(points, axis) == [k \in 1..Len(points) |-> points[k][axis + 1]]

\* array[indices]: numpy integer-array indexing along the first axis
Take(array, indices) == [i \in 1..Len(indices) |-> array[indices[i]]]

\* numpyify.py line 116
SortedIndicesSwapped(points) ==
    lexsort(<<Column(points, 0), Column(points, 1), Column(points, 2)>>)

SortedIndices(points) ==
    lexsort(<<Column(points, 2), Column(points, 1), Column(points, 0)>>)

RECURSIVE Prod(_)
Prod(s) == IF s = <<>> THEN 1 ELSE s[1] * Prod(Tail(s))

\* ndarray.reshape(shape) raises ValueError unless the sizes multiply to the
\* number of elements.
CanReshapeTruncating(n, shape) == Prod(shape) <= n

CanReshape(n, shape) == Prod(shape) = n

\* ndarray.reshape of a flat sequence to (size_x, size_y) and to
\* (size_x, size_y, size_z), row-major, where CanReshape holds.
Reshape2ColumnMajor(flat, size_x, size_y) ==
    [i \in 1..size_x |-> [j \in 1..size_y |-> flat[(j - 1) * size_x + i]]]

Reshape2(flat, size_x, size_y) ==
    [i \in 1..size_x |-> [j \in 1..size_y |-> flat[(i - 1) * size_y + j]]]

Reshape3(flat, size_x, size_y, size_z) ==
    [i \in 1..size_x |-> [j \in 1..size_y |-> [k \in 1..size_z |->
        flat[((i - 1) * size_y + (j - 1)) * size_z + k]]]]

(***************************************************************************)
(* Results.  A call ends in a returned value (status "ok") or in a raised  *)
(* exception: status is the exception class, named the set of field names  *)
(* its message contains and timeIndex the set of time indices its message  *)
(* contains.                                                               *)
(***************************************************************************)
Raise(exc, names) ==
    [status |-> exc, named |-> names, timeIndex |-> {},
     times |-> <<>>, points |-> <<>>, data |-> <<>>, shape |-> <<>>]

Return(time_steps, points, data, shape) ==
    [status |-> "ok", named |-> {}, timeIndex |-> {},
     times |-> time_steps, points |-> points, data |-> data, shape |-> shape]

NoResult == Raise("none", {})

\* The first index of a sequence of row records whose status is not "ok"
\* (the iteration of the loop that raises), 0 when there is none.
FirstRaise(rows) ==
    LET bad == {c \in 1..Len(rows) : rows[c].status # "ok"}
    IN  IF bad = {} THEN 0 ELSE CHOOSE c \in bad : \A d \in bad : c <= d

(***************************************************************************)
(* to_numpy_point_list (numpyify.py lines 73-159).                         *)
(***************************************************************************)
\* One iteration of the loop of lines 129-157: the row data[i] or the
\* exception raised.  vtk_to_numpy(None) raises AttributeError, whose message
\* knows nothing of the requested name; selecting a component of a
\* one-component array raises IndexError; assigning an (N, 3) array to the
\* row data[i] raises ValueError.
PointListRowUnsorted(cellData, array_name, sorted_indices) ==
    IF EndsWith(array_name, "_Magnitude") THEN Raise("KeyError", {array_name})
    ELSE LET array == GetAbstractArray(cellData, BaseArrayName(array_name))
             vec_component == VecComponent(array_name)
         IN  IF IsNone(array) THEN Raise("AttributeError", {})
             ELSE IF vec_component < 0
             THEN IF array.ncomp = 1
                  THEN Return(<<>>, <<>>, array.vals, <<>>)
                  ELSE Raise("ValueError", {})
             ELSE IF array.ncomp = 1 THEN Raise("IndexError", {})
                  ELSE Return(<<>>, <<>>,
                              [k \in 1..Len(array.vals) |->
                                  array.vals[k][vec_component + 1]], <<>>)

PointListRow(cellData, array_name, sorted_indices) ==
    IF EndsWith(array_name, "_Magnitude") THEN Raise("KeyError", {array_name})
    ELSE LET array == GetAbstractArray(cellData, BaseArrayName(array_name))
             vec_component == VecComponent(array_name)
         IN  IF IsNone(array) THEN Raise("AttributeError", {})
             ELSE IF vec_component < 0
             THEN IF array.ncomp = 1
                  THEN Return(<<>>, <<>>, Take(array.vals, sorted_indices), <<>>)
                  ELSE Raise("ValueError", {})
             ELSE IF array.ncomp = 1 THEN Raise("IndexError", {})
                  ELSE Return(<<>>, <<>>,
                              [i \in 1..Len(sorted_indices) |->
                                  array.vals[sorted_indices[i]][vec_component + 1]],
                              <<>>)

to_numpy_point_list(snapshot, array_names) ==
    LET sorted_indices == SortedIndices(snapshot.points)
        points == Take(snapshot.points, sorted_indices)
        rows == [c \in 1..Len(array_names) |->
                    PointListRow(snapshot.cellData, array_names[c], sorted_indices)]
        bad == FirstRaise(rows)
    IN  IF bad # 0 THEN rows[bad]
        ELSE Return(<<>>, points, [c \in 1..Len(array_names) |-> rows[c].data],
                    <<Len(points)>>)

(***************************************************************************)
(* to_numpy_2d and to_numpy_3d (lines 162-253).                            *)
(***************************************************************************)
\* A count that takes the last point of the list as its reference.
CountAgreeLast(points, axes) ==
    Cardinality({k \in 1..Len(points) :
                    \A a \in axes : points[k][a + 1] = points[Len(points)][a + 1]})

\* np.argwhere(cond).shape[0] for the conditions of lines 194-195, 238-246:
\* the number of points that agree with points[0] on the given axes.
CountAgree(points, axes) ==
    Cardinality({k \in 1..Len(points) :
                    \A a \in axes : points[k][a + 1] = points[1][a + 1]})

\* An extraction that checks the (x, y) pairs to be a full Cartesian product
\* before it reshapes.
to_numpy_2d_validating(snapshot, array_names) ==
    LET r == to_numpy_point_list(snapshot, array_names)
        Xs == {r.points[k][1] : k \in 1..Len(r.points)}
        Ys == {r.points[k][2] : k \in 1..Len(r.points)}
        size_x == Cardinality(Xs)
        size_y == Cardinality(Ys)
    IN  IF r.status # "ok" THEN r
        ELSE IF \/ Len(r.points) # size_x * size_y
                \/ {<<r.points[k][1], r.points[k][2]>> : k \in 1..Len(r.points)}
                       # Xs \X Ys
        THEN Raise("ValueError", {})
        ELSE Return(<<>>, Reshape2(r.points, size_x, size_y),
                    [c \in 1..Len(array_names) |->
                        Reshape2(r.data[c], size_x, size_y)],
                    <<size_x, size_y>>)

\* An extraction that counts within the z-plane of the first point and
\* returns that plane.
to_numpy_2d_first_plane(snapshot, array_names) ==
    LET r == to_numpy_point_list(snapshot, array_names)
        size_x == CountAgree(r.points, {1, 2})
        size_y == CountAgree(r.points, {0, 2})
    IN  IF r.status # "ok" THEN r
        ELSE IF size_x * size_y > Len(r.points) THEN Raise("ValueError", {})
        ELSE Return(<<>>, Reshape2(r.points, size_x, size_y),
                    [c \in 1..Len(array_names) |->
                        Reshape2(r.data[c], size_x, size_y)],
                    <<size_x, size_y>>)

to_numpy_2d(snapshot, array_names) ==
    LET r == to_numpy_point_list(snapshot, array_names)
        size_x == CountAgree(r.points, {1})
        size_y == CountAgree(r.points, {0})
    IN  IF r.status # "ok" THEN r
        ELSE IF ~CanReshape(Len(r.points), <<size_x, size_y>>) THEN Raise("ValueError", {})
        ELSE Return(<<>>, Reshape2(r.points, size_x, size_y),
                    [c \in 1..Len(array_names) |->
                        Reshape2(r.data[c], size_x, size_y)],
                    <<size_x, size_y>>)

to_numpy_3d(snapshot, array_names) ==
    LET r == to_numpy_point_list(snapshot, array_names)
        size_x == CountAgree(r.points, {1, 2})
        size_y == CountAgree(r.points, {0, 2})
        size_z == CountAgree(r.points, {0, 1})
    IN  IF r.status # "ok" THEN r
        ELSE IF ~CanReshape(Len(r.points), <<size_x, size_y, size_z>>)
        THEN Raise("ValueError", {})
        ELSE Return(<<>>, Reshape3(r.points, size_x, size_y, size_z),
                    [c \in 1..Len(array_names) |->
                        Reshape3(r.data[c], size_x, size_y, size_z)],
                    <<size_x, size_y, size_z>>)

(***************************************************************************)
(* to_numpy_time_steps (lines 256-372).                                    *)
(***************************************************************************)
\* The optional argument time_steps: None, or a list.
NoTimeSteps == [given |-> FALSE, list |-> <<>>]
TimeSteps(list) == [given |-> TRUE, list |-> list]

\* The time coordinates of a call that never looks at its argument.
EffectiveTimeStepsDeclared(time_steps, TimestepValues) == TimestepValues

\* lines 301-302: "if not time_steps" holds for None and for the empty list
EffectiveTimeSteps(time_steps, TimestepValues) ==
    IF ~time_steps.given \/ time_steps.list = <<>>
    THEN TimestepValues ELSE time_steps.list

\* line 331
SortedIndicesFrameIdentity(points) == Identity(Len(points))

SortedIndicesFrame(points) ==
    lexsort(<<Column(points, 2), Column(points, 1), Column(points, 0)>>)

\* One iteration of the inner loop, lines 339-367.
TimeStepsRowUnchecked(cellData, array_name, sorted_indices) ==
    LET array == GetAbstractArray(cellData, BaseArrayName(array_name))
        vec_component == VecComponent(array_name)
    IN  IF IsNone(array) THEN Raise("AttributeError", {})
        ELSE IF vec_component < 0
        THEN IF array.ncomp = 1
             THEN Return(<<>>, <<>>, Take(array.vals, sorted_indices), <<>>)
             ELSE Raise("ValueError", {})
        ELSE IF array.ncomp = 1 THEN Raise("IndexError", {})
             ELSE Return(<<>>, <<>>,
                         [i \in 1..Len(sorted_indices) |->
                             array.vals[sorted_indices[i]][vec_component + 1]],
                         <<>>)

TimeStepsRow(cellData, array_name, sorted_indices) ==
    IF EndsWith(array_name, "_Magnitude") THEN Raise("KeyError", {array_name})
    ELSE LET array == GetAbstractArray(cellData, BaseArrayName(array_name))
             vec_component == VecComponent(array_name)
         IN  IF IsNone(array) THEN Raise("AttributeError", {})
             ELSE IF vec_component < 0
             THEN IF array.ncomp = 1
                  THEN Return(<<>>, <<>>, Take(array.vals, sorted_indices), <<>>)
                  ELSE Raise("ValueError", {})
             ELSE IF array.ncomp = 1 THEN Raise("IndexError", {})
                  ELSE Return(<<>>, <<>>,
                              [i \in 1..Len(sorted_indices) |->
                                  array.vals[sorted_indices[i]][vec_component + 1]],
                              <<>>)

\* An iteration that sorts the fields and leaves the points as fetched.
TimeStepsFramePointsRaw(snapshot, array_names) ==
    LET sorted_indices == SortedIndicesFrame(snapshot.points)
        rows == [c \in 1..Len(array_names) |->
                    TimeStepsRow(snapshot.cellData, array_names[c], sorted_indices)]
        bad == FirstRaise(rows)
    IN  IF bad # 0 THEN rows[bad]
        ELSE Return(<<>>, snapshot.points,
                    [c \in 1..Len(array_names) |-> rows[c].data],
                    <<Len(snapshot.points)>>)

\* One iteration of the outer loop, lines 316-370, on the snapshot that
\* UpdatePipeline(time) and Fetch deliver.
TimeStepsFrame(snapshot, array_names) ==
    LET sorted_indices == SortedIndicesFrame(snapshot.points)
        points == Take(snapshot.points, sorted_indices)
        rows == [c \in 1..Len(array_names) |->
                    TimeStepsRow(snapshot.cellData, array_names[c], sorted_indices)]
        bad == FirstRaise(rows)
    IN  IF bad # 0 THEN rows[bad]
        ELSE Return(<<>>, points, [c \in 1..Len(array_names) |-> rows[c].data],
                    <<Len(points)>>)

\* lines 319-320: the snapshot the i-th iteration evaluates
FrameTimeFirst(time_steps, i) == time_steps[1]

FrameTime(time_steps, i) == time_steps[i]

Frames(solution, array_names, time_steps) ==
    [i \in 1..Len(time_steps) |->
        TimeStepsFrame(solution[FrameTime(time_steps, i)], array_names)]

\* The number of iterations of the outer loop that began (each begins with
\* UpdatePipeline): all of them, or up to the one that raised.
FramesBegun(solution, array_names, time_steps) ==
    LET bad == FirstRaise(Frames(solution, array_names, time_steps))
    IN  IF bad # 0 THEN bad ELSE Len(time_steps)

\* A loop that leaves out the time steps whose frame raised.
to_numpy_time_steps_skipping(solution, TimestepValues, array_names, time_steps_arg) ==
    LET time_steps == EffectiveTimeSteps(time_steps_arg, TimestepValues)
        frames == Frames(solution, array_names, time_steps)
        good == SelectSeq(Identity(Len(time_steps)),
                          LAMBDA i : frames[i].status = "ok")
    IN  Return([i \in 1..Len(good) |-> time_steps[good[i]]],
               [i \in 1..Len(good) |-> frames[good[i]].points],
               [i \in 1..Len(good) |-> frames[good[i]].data],
               <<Len(good)>>)

to_numpy_time_steps(solution, TimestepValues, array_names, time_steps_arg) ==
    LET time_steps == EffectiveTimeSteps(time_steps_arg, TimestepValues)
        frames == Frames(solution, array_names, time_steps)
        bad == FirstRaise(frames)
    IN  IF bad # 0 THEN frames[bad]
        ELSE Return(time_steps,
                    [i \in 1..Len(time_steps) |-> frames[i].points],
                    [i \in 1..Len(time_steps) |-> frames[i].data],
                    <<Len(time_steps)>>)

(***************************************************************************)
(* to_numpy_time_steps_2d and to_numpy_time_steps_3d (lines 375-502).      *)
(***************************************************************************)
\* np.array(data) of a list of (channels, N_t) arrays raises ValueError when
\* the N_t differ (an inhomogeneous shape).
Inhomogeneous(data) ==
    \E t \in 1..Len(data) : \E c \in 1..Len(data[t]) :
        Len(data[t][c]) # Len(data[1][c])

to_numpy_time_steps_2d(solution, TimestepValues, array_names, time_steps_arg) ==
    LET r == to_numpy_time_steps(solution, TimestepValues, array_names,
                                 time_steps_arg)
        points == r.points[1]
        size_x == CountAgree(points, {1})
        size_y == CountAgree(points, {0})
    IN  IF r.status # "ok" THEN r
        ELSE IF r.points = <<>> THEN Raise("IndexError", {})
        ELSE IF Inhomogeneous(r.data) THEN Raise("ValueError", {})
        ELSE IF ~CanReshape(Len(points), <<size_x, size_y>>) THEN Raise("ValueError", {})
        ELSE Return(r.times, Reshape2(points, size_x, size_y),
                    [t \in 1..Len(r.data) |-> [c \in 1..Len(array_names) |->
                        Reshape2(r.data[t][c], size_x, size_y)]],
                    <<Len(r.times), Len(array_names), size_x, size_y>>)

to_numpy_time_steps_3d(solution, TimestepValues, array_names, time_steps_arg) ==
    LET r == to_numpy_time_steps(solution, TimestepValues, array_names,
                                 time_steps_arg)
        points == r.points[1]
        size_x == CountAgree(points, {1, 2})
        size_y == CountAgree(points, {0, 2})
        size_z == CountAgree(points, {0, 1})
    IN  IF r.status # "ok" THEN r
        ELSE IF r.points = <<>> THEN Raise("IndexError", {})
        ELSE IF Inhomogeneous(r.data) THEN Raise("ValueError", {})
        ELSE IF ~CanReshape(Len(points), <<size_x, size_y, size_z>>)
        THEN Raise("ValueError", {})
        ELSE Return(r.times, Reshape3(points, size_x, size_y, size_z),
                    [t \in 1..Len(r.data) |-> [c \in 1..Len(array_names) |->
                        Reshape3(r.data[t][c], size_x, size_y, size_z)]],
                    <<Len(r.times), Len(array_names), size_x, size_y, size_z>>)

(***************************************************************************)
(* The state.                                                              *)
(***************************************************************************)
VARIABLES
    solution,        \* the data source: time coordinate -> snapshot
    TimestepValues,  \* solution.TimestepValues, the declared time coordinates
    pipelineTime,    \* the time the pipeline of the data source was last
                     \* updated to; a Fetch without UpdatePipeline(time)
                     \* delivers the snapshot of this time
    registered,      \* registration names of the filters created so far
    call,            \* the last call: entry point and arguments
    result,          \* what that call returned or raised
    argv,            \* sys.argv of the running script, argv[1] is sys.argv[0]
    results_folder_argv,  \* utils._results_folder_argv (utils.py line 10)
    prm_lines,       \* the caller's list of lines handed to utils.prm_to_dict
    frame            \* the local variables of a call that is followed step
                     \* by step through its loop, and its position

vars == <<solution, TimestepValues, pipelineTime, registered, call, result,
          argv, results_folder_argv, prm_lines, frame>>

\* No call is being followed through its loop.
NoFrame == [pc |-> "idle"]

\* The state utils.py and the stepwise loops work on; the extraction calls
\* taken as one step never touch it.
utilsVars == <<argv, results_folder_argv, prm_lines, frame>>

NoCall == [op |-> "none", array_names |-> <<>>, time_steps |-> NoTimeSteps]

\* lines 103-105 and 120-122, 305-312: both filters are created, and so
\* registered with the pipeline, before any field is read
NewFilters == <<"CellCenters", "PointDatatoCellData">>

\* The pipeline before the first extraction call.
Fresh == registered = <<>>

(***************************************************************************)
(* The entry points as actions.                                            *)
(***************************************************************************)
Call_to_numpy_point_list(array_names) ==
    /\ registered' = registered \o NewFilters
    /\ call' = [op |-> "to_numpy_point_list", array_names |-> array_names,
                time_steps |-> NoTimeSteps]
    /\ result' = to_numpy_point_list(solution[pipelineTime], array_names)
    /\ UNCHANGED <<solution, TimestepValues, pipelineTime>>
    /\ UNCHANGED utilsVars

Call_to_numpy_2d(array_names) ==
    /\ registered' = registered \o NewFilters
    /\ call' = [op |-> "to_numpy_2d", array_names |-> array_names,
                time_steps |-> NoTimeSteps]
    /\ result' = to_numpy_2d(solution[pipelineTime], array_names)
    /\ UNCHANGED <<solution, TimestepValues, pipelineTime>>
    /\ UNCHANGED utilsVars

Call_to_numpy_3d(array_names) ==
    /\ registered' = registered \o NewFilters
    /\ call' = [op |-> "to_numpy_3d", array_names |-> array_names,
                time_steps |-> NoTimeSteps]
    /\ result' = to_numpy_3d(solution[pipelineTime], array_names)
    /\ UNCHANGED <<solution, TimestepValues, pipelineTime>>
    /\ UNCHANGED utilsVars

\* lines 319-320: every iteration that begins moves the pipeline to its time
PipelineTimeAfter(array_names, time_steps_arg) ==
    LET time_steps == EffectiveTimeSteps(time_steps_arg, TimestepValues)
        begun == FramesBegun(solution, array_names, time_steps)
    IN  IF begun = 0 THEN pipelineTime ELSE time_steps[begun]

Call_to_numpy_time_steps(array_names, time_steps) ==
    /\ registered' = registered \o NewFilters
    /\ call' = [op |-> "to_numpy_time_steps", array_names |-> array_names,
                time_steps |-> time_steps]
    /\ result' = to_numpy_time_steps(solution, TimestepValues, array_names,
                                     time_steps)
    /\ pipelineTime' = PipelineTimeAfter(array_names, time_steps)
    /\ UNCHANGED <<solution, TimestepValues>>
    /\ UNCHANGED utilsVars

Call_to_numpy_time_steps_2d(array_names, time_steps) ==
    /\ registered' = registered \o NewFilters
    /\ call' = [op |-> "to_numpy_time_steps_2d", array_names |-> array_names,
                time_steps |-> time_steps]
    /\ result' = to_numpy_time_steps_2d(solution, TimestepValues, array_names,
                                        time_steps)
    /\ pipelineTime' = PipelineTimeAfter(array_names, time_steps)
    /\ UNCHANGED <<solution, TimestepValues>>
    /\ UNCHANGED utilsVars

Call_to_numpy_time_steps_3d(array_names, time_steps) ==
    /\ registered' = registered \o NewFilters
    /\ call' = [op |-> "to_numpy_time_steps_3d", array_names |-> array_names,
                time_steps |-> time_steps]
    /\ result' = to_numpy_time_steps_3d(solution, TimestepValues, array_names,
                                        time_steps)
    /\ pipelineTime' = PipelineTimeAfter(array_names, time_steps)
    /\ UNCHANGED <<solution, TimestepValues>>
    /\ UNCHANGED utilsVars

(***************************************************************************)
(* Data sources.                                                           *)
(***************************************************************************)
\* Every raw point list of 1..MaxN points of the cube, in every order,
\* duplicates included.
FreePointLists == SeqsUpTo(Cube, MaxN) \ {<<>>}

\* The full Cartesian grid of dims[1] x dims[2] x dims[3] points with
\* coordinates 0..dims[a]-1, listed with axis order[1] varying slowest and
\* axis order[3] fastest (axes are 1, 2, 3 for x, y, z).
GridPoints(dims, order) ==
    LET n(a) == dims[order[a]]
        digit(p, a) == IF a = 3 THEN p % n(3)
                       ELSE IF a = 2 THEN (p \div n(3)) % n(2)
                       ELSE p \div (n(3) * n(2))
        place(axis) == CHOOSE a \in 1..3 : order[a] = axis
    IN  [p \in 1..(dims[1] * dims[2] * dims[3]) |->
            <<digit(p - 1, place(1)), digit(p - 1, place(2)),
              digit(p - 1, place(3))>>]

AxisOrders == {o \in [1..3 -> 1..3] : Range(o) = 1..3}
GridDims == [1..3 -> 1..MaxDim]

\* The order a VTK structured data set lists its cells in: x fastest.
VtkOrder == <<3, 2, 1>>

\* Full grids in every axis order, forwards and backwards.
GridPointLists ==
    {GridPoints(d, o) : d \in GridDims, o \in AxisOrders} \cup
    {Reverse(GridPoints(d, o)) : d \in GridDims, o \in AxisOrders}

\* A data source whose geometry is pts at the first time coordinate; at time
\* `at` the geometry is changed as `kind` says (a grid that is refined,
\* coarsened or renumbered between two output steps).
Varied(pts, kind) ==
    IF kind = "reversed" THEN Reverse(pts)
    ELSE IF kind = "grown" THEN Append(pts, pts[1])
    ELSE IF kind = "shrunk" /\ Len(pts) > 1 THEN SubSeq(pts, 1, Len(pts) - 1)
    ELSE pts

VariationKinds == {"same", "reversed", "grown", "shrunk"}

Source(pts, kind, at) ==
    [t \in Times |-> Snapshot(t, IF t = at THEN Varied(pts, kind) ELSE pts)]

\* A data source without time: every evaluation delivers the same snapshot.
StaticSource(pts) == [t \in Times |-> Snapshot(1, pts)]

DeclaredTimes == [t \in 1..MaxT |-> t]

\* No extraction call has been made.
InitPipeline ==
    /\ pipelineTime = 1
    /\ registered = <<>>
    /\ call = NoCall
    /\ result = NoResult

\* utils.py as imported (line 10), in a script started without arguments.
InitUtils ==
    /\ argv = <<<<"script">>>>
    /\ results_folder_argv = 1
    /\ prm_lines = <<>>
    /\ frame = NoFrame

InitCommon == InitPipeline /\ InitUtils

(***************************************************************************)
(* Specification Spec: every geometry, a few field lists.                  *)
(***************************************************************************)
GeomNames == {<<ScalarName>>, <<VectorName \o <<"_Z">>, ScalarName>>}

Init ==
    /\ \E pts \in FreePointLists \cup GridPointLists :
          solution = Source(pts, "reversed", MaxT)
    /\ TimestepValues = DeclaredTimes
    /\ InitCommon

Next ==
    \/ Fresh /\ \E array_names \in GeomNames :
                    Call_to_numpy_point_list(array_names)
    \/ Fresh /\ \E array_names \in GeomNames :
                    Call_to_numpy_2d(array_names)
    \/ Fresh /\ \E array_names \in GeomNames :
                    Call_to_numpy_3d(array_names)
    \/ Fresh /\ \E array_names \in GeomNames :
                    Call_to_numpy_time_steps(array_names, NoTimeSteps)

Spec == Init /\ [][Next]_vars

(***************************************************************************)
(* Specification SpecNames: every field list, a few geometries.            *)
(***************************************************************************)
\* The names a caller may ask for: the scalar, the three components, the
\* magnitude, a field the data source does not have (plain and with a
\* component suffix), the vector without a suffix, a component of the scalar.
NamePool ==
    {ScalarName, VectorName \o <<"_X">>, VectorName \o <<"_Y">>,
     VectorName \o <<"_Z">>, VectorName \o <<"_Magnitude">>,
     <<"g">>, <<"B", "_Y">>, VectorName, ScalarName \o <<"_X">>}

NameLists == SeqsUpTo(NamePool, MaxNames) \ {<<>>}

\* A 2 x 2 grid in VTK order and three points that are no grid.
NamesGeometries ==
    {GridPoints(<<2, 2, 1>>, VtkOrder),
     <<<<1, 1, 0>>, <<0, 0, 0>>, <<1, 0, 1>>>>}

InitNames ==
    /\ \E pts \in NamesGeometries :
          \/ /\ solution = Source(pts, "reversed", MaxT)
             /\ TimestepValues = DeclaredTimes
          \/ /\ solution = StaticSource(pts)
             /\ TimestepValues = <<>>
    /\ InitCommon

NamesTimeSteps == {NoTimeSteps, TimeSteps(<<MaxT, 1>>)}

NextNames ==
    \/ Fresh /\ \E array_names \in NameLists :
                    Call_to_numpy_point_list(array_names)
    \/ Fresh /\ \E array_names \in NameLists :
                    Call_to_numpy_2d(array_names)
    \/ Fresh /\ \E array_names \in NameLists :
                    Call_to_numpy_3d(array_names)
    \/ Fresh /\ \E array_names \in NameLists, time_steps \in NamesTimeSteps :
                    Call_to_numpy_time_steps(array_names, time_steps)
    \/ Fresh /\ \E array_names \in NameLists, time_steps \in NamesTimeSteps :
                    Call_to_numpy_time_steps_2d(array_names, time_steps)
    \/ Fresh /\ \E array_names \in NameLists, time_steps \in NamesTimeSteps :
                    Call_to_numpy_time_steps_3d(array_names, time_steps)

SpecNames == InitNames /\ [][NextNames]_vars

(***************************************************************************)
(* Specification SpecTime: every list of time coordinates, data sources    *)
(* whose geometry changes at one time coordinate.                          *)
(***************************************************************************)
InitTime ==
    /\ \E d \in GridDims :
          \/ /\ \E kind \in VariationKinds, at \in Times :
                   solution = Source(GridPoints(d, VtkOrder), kind, at)
             /\ TimestepValues = DeclaredTimes
          \/ /\ solution = StaticSource(GridPoints(d, VtkOrder))
             /\ TimestepValues = <<>>
    /\ InitCommon

TimeStepsArgs ==
    {NoTimeSteps} \cup {TimeSteps(l) : l \in SeqsUpTo(Times, MaxT)}

NextTime ==
    \/ Fresh /\ \E array_names \in GeomNames :
                    Call_to_numpy_point_list(array_names)
    \/ Fresh /\ \E array_names \in GeomNames, time_steps \in TimeStepsArgs :
                    Call_to_numpy_time_steps(array_names, time_steps)
    \/ Fresh /\ \E array_names \in GeomNames, time_steps \in TimeStepsArgs :
                    Call_to_numpy_time_steps_2d(array_names, time_steps)
    \/ Fresh /\ \E array_names \in GeomNames, time_steps \in TimeStepsArgs :
                    Call_to_numpy_time_steps_3d(array_names, time_steps)

SpecTime == InitTime /\ [][NextTime]_vars

(***************************************************************************)
(* Vocabulary of the properties.                                           *)
(***************************************************************************)
\* The value the data source holds for a requested name at raw cell k: the
\* scalar itself, or the component the suffix names.
ComponentOf(suffix) ==
    IF suffix = "_X" THEN 1 ELSE IF suffix = "_Y" THEN 2 ELSE 3

ComponentSuffixes == {"_X", "_Y", "_Z"}

RawValue(snapshot, name, k) ==
    LET last == name[Len(name)]
        base == SubSeq(name, 1, Len(name) - 1)
    IN  IF last \in ComponentSuffixes
        THEN snapshot.cellData[base].vals[k][ComponentOf(last)]
        ELSE snapshot.cellData[name].vals[k]

\* The raw cell a field value was read from (see ScalarValue, VectorValue).
RawCellOf(value) == (value % 1000) \div 10

\* Row-major flattening of a (size_x, size_y) and a (size_x, size_y, size_z)
\* array.
Flatten2(a, shape) ==
    [m \in 1..(shape[1] * shape[2]) |->
        a[((m - 1) \div shape[2]) + 1][((m - 1) % shape[2]) + 1]]

Flatten3(a, shape) ==
    [m \in 1..(shape[1] * shape[2] * shape[3]) |->
        a[((m - 1) \div (shape[2] * shape[3])) + 1]
         [(((m - 1) \div shape[3]) % shape[2]) + 1]
         [((m - 1) % shape[3]) + 1]]

\* points[i] and data[c][i] all come from one raw cell of the snapshot, and
\* the raw cells of the N outputs are the N raw cells, each once.
Corresponds(snapshot, array_names, points, data) ==
    LET N == Len(snapshot.points)
        cell(i) == RawCellOf(data[1][i])
    IN  /\ Len(points) = N
        /\ Len(data) = Len(array_names)
        /\ \A c \in 1..Len(data) : Len(data[c]) = N
        /\ \A i \in 1..N :
              /\ cell(i) \in 1..N
              /\ points[i] = snapshot.points[cell(i)]
              /\ \A c \in 1..Len(data) :
                    data[c][i] = RawValue(snapshot, array_names[c], cell(i))
        /\ \A i, j \in 1..N : i # j => cell(i) # cell(j)

\* p comes before q, or equals it, in the lexicographic order on (x, y, z)
LexLeq(p, q) ==
    \/ p[1] < q[1]
    \/ p[1] = q[1] /\ p[2] < q[2]
    \/ p[1] = q[1] /\ p[2] = q[2] /\ p[3] <= q[3]

IsSorted(points) ==
    \A i, j \in 1..Len(points) : i < j => LexLeq(points[i], points[j])

\* The snapshot a single-snapshot entry point reads.
CallSnapshot == solution[pipelineTime]

SingleOps == {"to_numpy_point_list", "to_numpy_2d", "to_numpy_3d"}

(***************************************************************************)
(* C1.  The sort permutation is applied to the points and to every         *)
(* requested field alike: in the result of to_numpy_point_list, of         *)
(* to_numpy_2d and to_numpy_3d (flattened) and in every frame of           *)
(* to_numpy_time_steps, data[c][i] is the raw value of array_names[c] at   *)
(* the raw cell whose coordinate is points[i], every raw cell occurs once, *)
(* and the sample count is that of the snapshot.                           *)
(***************************************************************************)
C1_SampleCorrespondence ==
    result.status = "ok" =>
        CASE call.op = "to_numpy_point_list" ->
                Corresponds(CallSnapshot, call.array_names,
                            result.points, result.data)
          [] call.op = "to_numpy_2d" ->
                Corresponds(CallSnapshot, call.array_names,
                            Flatten2(result.points, result.shape),
                            [c \in 1..Len(result.data) |->
                                Flatten2(result.data[c], result.shape)])
          [] call.op = "to_numpy_3d" ->
                Corresponds(CallSnapshot, call.array_names,
                            Flatten3(result.points, result.shape),
                            [c \in 1..Len(result.data) |->
                                Flatten3(result.data[c], result.shape)])
          [] call.op = "to_numpy_time_steps" ->
                \A t \in 1..Len(result.times) :
                    Corresponds(solution[result.times[t]], call.array_names,
                                result.points[t], result.data[t])
          [] OTHER -> TRUE

\* A point list of three cells was returned in another order than the raw
\* one, with two channels.
C1_Witness ==
    /\ call.op = "to_numpy_point_list"
    /\ result.status = "ok"
    /\ Len(result.data) = 2
    /\ Len(result.points) = 3
    /\ result.points # CallSnapshot.points
    /\ result.points[1] # result.points[2]

(***************************************************************************)
(* C2.  The point list of to_numpy_point_list and of every frame of        *)
(* to_numpy_time_steps is in lexicographic (x, y, z) order, whatever the   *)
(* raw order.                                                              *)
(***************************************************************************)
C2_LexicographicOrder ==
    result.status = "ok" =>
        CASE call.op = "to_numpy_point_list" -> IsSorted(result.points)
          [] call.op = "to_numpy_time_steps" ->
                \A t \in 1..Len(result.times) : IsSorted(result.points[t])
          [] OTHER -> TRUE

\* Raw points that differ in z only were listed with the larger z first
\* and after a point with a larger x.
C2_Witness ==
    /\ call.op = "to_numpy_point_list"
    /\ result.status = "ok"
    /\ CallSnapshot.points = <<<<1, 0, 0>>, <<0, 1, 1>>, <<0, 1, 0>>>>
    /\ result.points = <<<<0, 1, 0>>, <<0, 1, 1>>, <<1, 0, 0>>>>

(***************************************************************************)
(* Vocabulary for grids.                                                   *)
(***************************************************************************)
AxisValues(points, a) == {points[k][a] : k \in 1..Len(points)}

\* The i-th smallest element of a finite set of numbers.
Nth(S, i) == CHOOSE v \in S : Cardinality({w \in S : w < v}) = i - 1

\* The raw points are a full Cartesian product of their x-, y- and z-values,
\* every combination present exactly once.
IsFullGrid(points) ==
    /\ Range(points) = AxisValues(points, 1) \X AxisValues(points, 2)
                                             \X AxisValues(points, 3)
    /\ \A k, l \in 1..Len(points) : k # l => points[k] # points[l]

\* The raw cell at a coordinate of a point list without duplicates.
CellAt(points, p) == CHOOSE k \in 1..Len(points) : points[k] = p

\* The m-th point of a set of points in lexicographic (x, y, z) order.
LexNth(P, m) ==
    CHOOSE p \in P : Cardinality({q \in P : q # p /\ LexLeq(q, p)}) = m - 1

\* The first point of the sorted list, and the sizes lines 194-197 and
\* 238-249 infer from it.
LexMin(points) == CHOOSE p \in Range(points) : \A q \in Range(points) : LexLeq(p, q)

InferredSize(points, axes) ==
    Cardinality({k \in 1..Len(points) :
                    \A a \in axes : points[k][a] = LexMin(points)[a]})

(***************************************************************************)
(* C3.  On a full Cartesian grid given in any raw order, to_numpy_2d (one  *)
(* z value) and to_numpy_3d return the shape (nx, ny[, nz]), points[i][j]  *)
(* [k] is (i-th smallest x, j-th smallest y, k-th smallest z), data[c][i]  *)
(* [j][k] is the value of array_names[c] at the raw cell with that         *)
(* coordinate, and data[c] flattened row-major lists the values in         *)
(* lexicographic order of their points.                                    *)
(***************************************************************************)
C3_GridRoundTrip ==
    LET raw == CallSnapshot.points
        Xs == AxisValues(raw, 1)
        Ys == AxisValues(raw, 2)
        Zs == AxisValues(raw, 3)
        nx == Cardinality(Xs)
        ny == Cardinality(Ys)
        nz == Cardinality(Zs)
        value(c, p) == RawValue(CallSnapshot, call.array_names[c], CellAt(raw, p))
    IN  /\ (call.op = "to_numpy_2d" /\ IsFullGrid(raw) /\ nz = 1) =>
              /\ result.status = "ok"
              /\ result.shape = <<nx, ny>>
              /\ \A i \in 1..nx, j \in 1..ny :
                    /\ result.points[i][j] = <<Nth(Xs, i), Nth(Ys, j), Nth(Zs, 1)>>
                    /\ \A c \in 1..Len(call.array_names) :
                          result.data[c][i][j] = value(c, result.points[i][j])
              /\ \A c \in 1..Len(call.array_names) :
                    Flatten2(result.data[c], result.shape) =
                        [m \in 1..Len(raw) |-> value(c, LexNth(Range(raw), m))]
        /\ (call.op = "to_numpy_3d" /\ IsFullGrid(raw)) =>
              /\ result.status = "ok"
              /\ result.shape = <<nx, ny, nz>>
              /\ \A i \in 1..nx, j \in 1..ny, k \in 1..nz :
                    /\ result.points[i][j][k] =
                          <<Nth(Xs, i), Nth(Ys, j), Nth(Zs, k)>>
                    /\ \A c \in 1..Len(call.array_names) :
                          result.data[c][i][j][k] =
                              value(c, result.points[i][j][k])
              /\ \A c \in 1..Len(call.array_names) :
                    Flatten3(result.data[c], result.shape) =
                        [m \in 1..Len(raw) |-> value(c, LexNth(Range(raw), m))]

\* A 2 x 2 x 2 grid whose raw order is not the sorted one was reshaped.
C3_Witness ==
    /\ call.op = "to_numpy_3d"
    /\ result.status = "ok"
    /\ result.shape = <<2, 2, 2>>
    /\ IsFullGrid(CallSnapshot.points)
    /\ ~IsSorted(CallSnapshot.points)
    /\ Len(call.array_names) = 2

(***************************************************************************)
(* C7.  to_numpy_2d and to_numpy_3d raise whenever the product of the      *)
(* inferred sizes differs from the sample count N; an array they return    *)
(* has exactly N elements per channel, none dropped and none added.        *)
(***************************************************************************)
C7_ShapeMismatchRaises ==
    LET raw == CallSnapshot.points
        N == Len(raw)
        product2 == InferredSize(raw, {2}) * InferredSize(raw, {1})
        product3 == InferredSize(raw, {2, 3}) * InferredSize(raw, {1, 3})
                        * InferredSize(raw, {1, 2})
    IN  /\ (call.op = "to_numpy_2d" /\ product2 # N) => result.status = "ValueError"
        /\ (call.op = "to_numpy_3d" /\ product3 # N) => result.status = "ValueError"
        /\ (call.op = "to_numpy_2d" /\ result.status = "ok") =>
              /\ Prod(result.shape) = N
              /\ \A c \in 1..Len(result.data) :
                    /\ Len(result.data[c]) = result.shape[1]
                    /\ \A i \in 1..result.shape[1] :
                          Len(result.data[c][i]) = result.shape[2]
        /\ (call.op = "to_numpy_3d" /\ result.status = "ok") =>
              /\ Prod(result.shape) = N
              /\ \A c \in 1..Len(result.data) :
                    /\ Len(result.data[c]) = result.shape[1]
                    /\ \A i \in 1..result.shape[1] :
                          /\ Len(result.data[c][i]) = result.shape[2]
                          /\ \A j \in 1..result.shape[2] :
                                Len(result.data[c][i][j]) = result.shape[3]

\* Three points that are no Cartesian product: 2 x 2 is inferred for 3
\* samples, and to_numpy_2d raised.
C7_Witness ==
    /\ call.op = "to_numpy_2d"
    /\ Len(CallSnapshot.points) = 3
    /\ InferredSize(CallSnapshot.points, {2}) = 2
    /\ InferredSize(CallSnapshot.points, {1}) = 2
    /\ result.status = "ValueError"

(***************************************************************************)
(* Vocabulary for field names.                                             *)
(***************************************************************************)
IsMagnitude(name) == Len(name) > 0 /\ name[Len(name)] = "_Magnitude"

HasComponentSuffix(name) ==
    Len(name) > 0 /\ name[Len(name)] \in ComponentSuffixes

\* The name under which a request is looked up in the data source.
LookupName(name) ==
    IF HasComponentSuffix(name) THEN SubSeq(name, 1, Len(name) - 1) ELSE name

\* The request names a scalar of the data source, or a component of one of
\* its vectors.
Resolves(snapshot, name) ==
    /\ ~IsMagnitude(name)
    /\ LookupName(name) \in DOMAIN snapshot.cellData
    /\ snapshot.cellData[LookupName(name)].ncomp =
          (IF HasComponentSuffix(name) THEN 3 ELSE 1)

\* The request names nothing the data source has.
Unknown(snapshot, name) ==
    ~IsMagnitude(name) /\ LookupName(name) \notin DOMAIN snapshot.cellData

TimeOps == {"to_numpy_time_steps", "to_numpy_time_steps_2d",
            "to_numpy_time_steps_3d"}

\* The time coordinates a time-series call works on.
UsedTimeSteps ==
    IF call.time_steps.given /\ call.time_steps.list # <<>>
    THEN call.time_steps.list ELSE TimestepValues

\* The call read at least one snapshot.
ReadsFields == call.op \in SingleOps \/ (call.op \in TimeOps /\ UsedTimeSteps # <<>>)

\* The first snapshot the call reads.
FirstSnapshot ==
    IF call.op \in TimeOps /\ UsedTimeSteps # <<>>
    THEN solution[UsedTimeSteps[1]] ELSE CallSnapshot

(***************************************************************************)
(* C4.  In to_numpy_point_list and in every frame of to_numpy_time_steps a *)
(* name ending in _X, _Y or _Z yields component 0, 1 or 2 of the vector    *)
(* field of the stripped name, and any other name (not _Magnitude) yields  *)
(* the scalar field of the full name, each at the cell of the sorted point;*)
(* a list of names that all resolve is answered with arrays.               *)
(***************************************************************************)
C4_ComponentDecoding ==
    LET names == call.array_names
        frameOk(snapshot, points, data) ==
            \A c \in 1..Len(names), i \in 1..Len(points) :
                data[c][i] = RawValue(snapshot, names[c],
                                      CellAt(snapshot.points, points[i]))
    IN  /\ (call.op = "to_numpy_point_list" /\ result.status = "ok") =>
              frameOk(CallSnapshot, result.points, result.data)
        /\ (call.op = "to_numpy_time_steps" /\ result.status = "ok") =>
              \A t \in 1..Len(result.times) :
                  frameOk(solution[result.times[t]], result.points[t],
                          result.data[t])
        /\ (/\ call.op \in {"to_numpy_point_list", "to_numpy_time_steps"}
            /\ \A c \in 1..Len(names) : Resolves(FirstSnapshot, names[c]))
              => result.status = "ok"

\* E_X and E_Z were asked of to_numpy_time_steps, and the first frame holds
\* first and third components.
C4_Witness ==
    /\ call.op = "to_numpy_time_steps"
    /\ call.array_names = <<VectorName \o <<"_X">>, VectorName \o <<"_Z">>>>
    /\ result.status = "ok"
    /\ Len(result.data) = 2
    /\ result.data[1][1][1] % 10 = 1
    /\ result.data[1][2][1] % 10 = 3

(***************************************************************************)
(* C5.  As claimed: every call of one of the six entry points whose        *)
(* array_names holds a name ending in _Magnitude ends in the KeyError that *)
(* names that field, wherever the name stands in the list and however many *)
(* time coordinates there are.                                             *)
(***************************************************************************)
MagnitudeIndices ==
    {c \in 1..Len(call.array_names) : IsMagnitude(call.array_names[c])}

FirstMagnitude ==
    CHOOSE c \in MagnitudeIndices : \A d \in MagnitudeIndices : c <= d

C5_Original ==
    (call.op # "none" /\ MagnitudeIndices # {}) =>
        /\ result.status = "KeyError"
        /\ result.named # {}
        /\ \A n \in result.named : IsMagnitude(n) /\ n \in Range(call.array_names)

(***************************************************************************)
(* C5, amended.  A call whose array_names holds a name ending in           *)
(* _Magnitude returns no array.  If it reads a snapshot and every name     *)
(* before the first such name resolves, it raises the KeyError naming that *)
(* name; if an earlier name does not resolve, it raises that name's error; *)
(* with no time coordinate to_numpy_time_steps returns three empty         *)
(* sequences and the 2D/3D time-series entry points raise IndexError.      *)
(***************************************************************************)
C5_MagnitudeNeverReturned ==
    (call.op # "none" /\ MagnitudeIndices # {}) =>
        /\ result.data = <<>>
        /\ IF ~ReadsFields
           THEN /\ result.status =
                      (IF call.op = "to_numpy_time_steps" THEN "ok" ELSE "IndexError")
                /\ result.times = <<>> /\ result.points = <<>>
           ELSE IF \A c \in 1..(FirstMagnitude - 1) :
                       Resolves(FirstSnapshot, call.array_names[c])
           THEN /\ result.status = "KeyError"
                /\ result.named = {call.array_names[FirstMagnitude]}
           ELSE /\ result.status \in {"AttributeError", "ValueError", "IndexError"}
                /\ result.named = {}

\* to_numpy_time_steps_2d was asked for f and E_Magnitude on two time
\* coordinates and raised the KeyError naming E_Magnitude.
C5_Witness ==
    /\ call.op = "to_numpy_time_steps_2d"
    /\ call.array_names = <<ScalarName, VectorName \o <<"_Magnitude">>>>
    /\ Len(UsedTimeSteps) = 2
    /\ result.status = "KeyError"
    /\ result.named = {VectorName \o <<"_Magnitude">>}

(***************************************************************************)
(* C6.  As claimed: when the first name that does not resolve is unknown   *)
(* to the data source (no scalar and no vector of that base name), the     *)
(* call raises a lookup error that names the requested field.              *)
(***************************************************************************)
C6_UnknownFieldNamed ==
    \A c \in 1..Len(call.array_names) :
        (/\ ReadsFields
         /\ Unknown(FirstSnapshot, call.array_names[c])
         /\ \A d \in 1..(c - 1) : Resolves(FirstSnapshot, call.array_names[d]))
            => /\ result.status \in {"KeyError", "LookupError"}
               /\ call.array_names[c] \in result.named

(***************************************************************************)
(* Vocabulary for time series.                                             *)
(***************************************************************************)
\* The raw points of the t-th frame a time-series call works on.
FramePoints(t) == solution[UsedTimeSteps[t]].points

\* The 0-based indices of the frames whose sample count differs from that
\* of frame 0.
OffendingIndices ==
    {t - 1 : t \in {u \in 2..Len(UsedTimeSteps) :
                        Len(FramePoints(u)) # Len(FramePoints(1))}}

\* All frames lie on one full Cartesian grid.
ConstantGrid ==
    /\ UsedTimeSteps # <<>>
    /\ \A t \in 1..Len(UsedTimeSteps) :
          /\ IsFullGrid(FramePoints(t))
          /\ Range(FramePoints(t)) = Range(FramePoints(1))

(***************************************************************************)
(* C8.  As claimed: when a frame t > 0 of to_numpy_time_steps_2d or        *)
(* to_numpy_time_steps_3d has another sample count than frame 0, the call  *)
(* raises a shape-mismatch error that identifies an offending time index.  *)
(***************************************************************************)
C8_MismatchNamesTimeIndex ==
    (/\ call.op \in {"to_numpy_time_steps_2d", "to_numpy_time_steps_3d"}
     /\ OffendingIndices # {})
        => /\ result.status = "ValueError"
           /\ result.timeIndex \cap OffendingIndices # {}

(***************************************************************************)
(* C9.  to_numpy_time_steps returns the time coordinates it used, in their *)
(* order, and as many point lists and data arrays; frame t is the sorted   *)
(* point list and the channel values of the snapshot at time_steps[t],     *)
(* with that snapshot's own sample count.                                  *)
(***************************************************************************)
C9_TimeStepsFrames ==
    call.op = "to_numpy_time_steps" =>
        /\ result.status = "ok"
        /\ result.times = UsedTimeSteps
        /\ Len(result.points) = Len(result.times)
        /\ Len(result.data) = Len(result.times)
        /\ \A t \in 1..Len(result.times) :
              /\ IsSorted(result.points[t])
              /\ Corresponds(solution[result.times[t]], call.array_names,
                             result.points[t], result.data[t])

\* The time coordinates were given in descending order and the two frames
\* returned differ in their sample counts.
C9_Witness ==
    /\ call.op = "to_numpy_time_steps"
    /\ result.status = "ok"
    /\ result.times = <<2, 1>>
    /\ Len(result.points[1]) # Len(result.points[2])
    /\ Len(result.points[2]) > 1

(***************************************************************************)
(* C10.  For frames on one constant full Cartesian grid (one z value for   *)
(* the 2D variant) to_numpy_time_steps_2d / _3d return the shape           *)
(* (T, channels, nx, ny[, nz]) inferred from frame 0, the grid of frame 0  *)
(* as points, and data[t][c][i][j][k] is the value of array_names[c] in the*)
(* snapshot at time_steps[t] at the cell of points[i][j][k]; data[t] is    *)
(* what to_numpy_2d / to_numpy_3d return for that snapshot.                *)
(***************************************************************************)
C10_StackedFrames ==
    LET raw == FramePoints(1)
        Xs == AxisValues(raw, 1)
        Ys == AxisValues(raw, 2)
        Zs == AxisValues(raw, 3)
        nx == Cardinality(Xs)
        ny == Cardinality(Ys)
        nz == Cardinality(Zs)
        T == Len(UsedTimeSteps)
        C == Len(call.array_names)
        value(t, c, p) == RawValue(solution[UsedTimeSteps[t]], call.array_names[c],
                                   CellAt(FramePoints(t), p))
    IN  /\ (call.op = "to_numpy_time_steps_2d" /\ ConstantGrid /\ nz = 1) =>
              /\ result.status = "ok"
              /\ result.times = UsedTimeSteps
              /\ result.shape = <<T, C, nx, ny>>
              /\ \A i \in 1..nx, j \in 1..ny :
                    /\ result.points[i][j] = <<Nth(Xs, i), Nth(Ys, j), Nth(Zs, 1)>>
                    /\ \A t \in 1..T, c \in 1..C :
                          result.data[t][c][i][j] = value(t, c, result.points[i][j])
              /\ \A t \in 1..T :
                    result.data[t] =
                        to_numpy_2d(solution[UsedTimeSteps[t]], call.array_names).data
        /\ (call.op = "to_numpy_time_steps_3d" /\ ConstantGrid) =>
              /\ result.status = "ok"
              /\ result.times = UsedTimeSteps
              /\ result.shape = <<T, C, nx, ny, nz>>
              /\ \A i \in 1..nx, j \in 1..ny, k \in 1..nz :
                    /\ result.points[i][j][k] =
                          <<Nth(Xs, i), Nth(Ys, j), Nth(Zs, k)>>
                    /\ \A t \in 1..T, c \in 1..C :
                          result.data[t][c][i][j][k] =
                              value(t, c, result.points[i][j][k])
              /\ \A t \in 1..T :
                    result.data[t] =
                        to_numpy_3d(solution[UsedTimeSteps[t]], call.array_names).data

\* Two frames on a 2 x 2 grid, the second listing its cells in another raw
\* order, were stacked to the shape (2, 1, 2, 2).
C10_Witness ==
    /\ call.op = "to_numpy_time_steps_2d"
    /\ result.status = "ok"
    /\ result.shape = <<2, 1, 2, 2>>
    /\ ConstantGrid
    /\ FramePoints(1) # FramePoints(2)
    /\ result.data[1] # result.data[2]


(***************************************************************************)
(* C11.  Without a list of time coordinates (None) the time-series entry   *)
(* points extract the frames of solution.TimestepValues, in that order;    *)
(* with a non-empty list they extract the frames of exactly that list, in  *)
(* its order, whatever TimestepValues holds.  The frames are recognised by *)
(* their values: frame t holds the values of the snapshot at the t-th      *)
(* expected time coordinate.                                               *)
(***************************************************************************)
\* The values a snapshot holds for a requested name.
SnapshotValues(snapshot, name) ==
    {RawValue(snapshot, name, k) : k \in 1..Len(snapshot.points)}

\* The values in frame t, channel c, of the result of a time-series call.
FrameValues(t, c) ==
    LET a == result.data[t][c]
    IN  CASE call.op = "to_numpy_time_steps" -> Range(a)
          [] call.op = "to_numpy_time_steps_2d" ->
                {a[i][j] : i \in 1..result.shape[3], j \in 1..result.shape[4]}
          [] call.op = "to_numpy_time_steps_3d" ->
                {a[i][j][k] : i \in 1..result.shape[3], j \in 1..result.shape[4],
                              k \in 1..result.shape[5]}

C11_TimeCoordinatesUsed ==
    LET expected == IF ~call.time_steps.given THEN TimestepValues
                    ELSE call.time_steps.list
    IN  (/\ call.op \in TimeOps
         /\ result.status = "ok"
         /\ ~call.time_steps.given \/ call.time_steps.list # <<>>) =>
            /\ result.times = expected
            /\ Len(result.data) = Len(expected)
            /\ \A t \in 1..Len(expected), c \in 1..Len(call.array_names) :
                  FrameValues(t, c) =
                      SnapshotValues(solution[expected[t]], call.array_names[c])

\* The data source declares the time coordinates 1, 2; the caller asked
\* to_numpy_time_steps_2d for 2 alone and received the one frame of time 2.
C11_Witness ==
    /\ call.op = "to_numpy_time_steps_2d"
    /\ call.time_steps = TimeSteps(<<2>>)
    /\ TimestepValues = <<1, 2>>
    /\ result.status = "ok"
    /\ result.times = <<2>>
    /\ result.data[1][1][1][1] \div 1000 = 2

(***************************************************************************)
(* to_numpy_1d (numpyify.py lines 10-70).                                  *)
(***************************************************************************)
\* The optional arguments x_min and x_max: None, or a number.
NoBound == [given |-> FALSE, value |-> 0]
Bound(v) == [given |-> TRUE, value |-> v]

\* line 43: Fetch(solution) of a line source; its arrays are the point data
\* of the fetched data set, one entry per point.
LineData(snapshot) == [points |-> snapshot.points, pointData |-> snapshot.cellData]

\* lines 62: GetPointData().GetArray(array_name), None for a missing array
GetArray(pointData, name) ==
    IF name \in DOMAIN pointData THEN pointData[name] ELSE None

\* A mask that drops the samples lying on a bound.
MaskStrict(x_values, x_min, x_max) ==
    [k \in 1..Len(x_values) |->
        /\ (x_min.given => x_values[k] > x_min.value)
        /\ (x_max.given => x_values[k] < x_max.value)]

\* lines 52-57: the boolean mask over the raw samples
Mask(x_values, x_min, x_max) ==
    [k \in 1..Len(x_values) |->
        /\ (x_min.given => x_values[k] >= x_min.value)
        /\ (x_max.given => x_values[k] <= x_max.value)]

\* array[mask]: the elements at the true positions, in their order
Masked(array, mask) ==
    LET kept == SelectSeq(Identity(Len(array)), LAMBDA k : mask[k])
    IN  [i \in 1..Len(kept) |-> array[kept[i]]]

\* One iteration of the loop of lines 60-66: the array is looked up under
\* the requested name as it stands; vtk_to_numpy(None) raises
\* AttributeError; assigning the (M, 3) array of a vector to the row
\* data[i] raises ValueError.
Line1dRow(pointData, array_name, mask) ==
    LET array == GetArray(pointData, array_name)
    IN  IF IsNone(array) THEN Raise("AttributeError", {})
        ELSE IF array.ncomp = 1
        THEN Return(<<>>, <<>>, Masked(array.vals, mask), <<>>)
        ELSE Raise("ValueError", {})

\* The result record holds x_values in the field points.
to_numpy_1d(snapshot, array_names, x_direction, x_min, x_max) ==
    LET solution_data == LineData(snapshot)
        x_all == Column(solution_data.points, x_direction)
        mask == Mask(x_all, x_min, x_max)
        x_values == Masked(x_all, mask)
        rows == [c \in 1..Len(array_names) |->
                    Line1dRow(solution_data.pointData, array_names[c], mask)]
        bad == FirstRaise(rows)
    IN  IF bad # 0 THEN rows[bad]
        ELSE Return(<<>>, x_values, [c \in 1..Len(array_names) |-> rows[c].data],
                    <<>>)

\* lines 43: the data source is fetched as it is; no filter is created
Call_to_numpy_1d(array_names, x_direction, x_min, x_max) ==
    /\ call' = [op |-> "to_numpy_1d", array_names |-> array_names,
                time_steps |-> NoTimeSteps, x_direction |-> x_direction,
                x_min |-> x_min, x_max |-> x_max]
    /\ result' = to_numpy_1d(solution[pipelineTime], array_names, x_direction,
                             x_min, x_max)
    /\ UNCHANGED <<solution, TimestepValues, pipelineTime, registered>>
    /\ UNCHANGED utilsVars

(***************************************************************************)
(* Specification SpecLine: line sources for to_numpy_1d.                   *)
(***************************************************************************)
\* The samples of a line source, in any order, duplicates included.
LinePoints == {<<0, 0, 0>>, <<1, 0, 0>>, <<0, 1, 0>>, <<1, 1, 1>>}
LinePointLists == SeqsUpTo(LinePoints, MaxN) \ {<<>>}

\* The field lists asked of a line source: scalars, a component and the
\* magnitude of the vector, the vector itself, a field it does not have.
LineNames ==
    {<<ScalarName>>, <<ScalarName, ScalarName>>, <<VectorName \o <<"_X">>>>,
     <<ScalarName, VectorName \o <<"_Magnitude">>>>, <<VectorName>>,
     <<ScalarName, <<"g">>>>}

Bounds == {NoBound} \cup {Bound(v) : v \in Coord}

InitLine ==
    /\ \E pts \in LinePointLists : solution = StaticSource(pts)
    /\ TimestepValues = <<>>
    /\ InitCommon

\* One extraction per behaviour: no call has been made yet.
Uncalled == call = NoCall

NextLine ==
    Uncalled /\ \E array_names \in LineNames, x_direction \in 0..2,
                   x_min \in Bounds, x_max \in Bounds :
                    Call_to_numpy_1d(array_names, x_direction, x_min, x_max)

SpecLine == InitLine /\ [][NextLine]_vars

(***************************************************************************)
(* C12.  to_numpy_1d returns the samples whose coordinate along            *)
(* x_direction lies in [x_min, x_max], each bound applied only when given  *)
(* and both inclusive, in their raw order; data[c][i] is the value of      *)
(* array_names[c] at the sample whose coordinate is x_values[i]; without   *)
(* bounds all N samples are returned.  (For names of scalar arrays of the  *)
(* data source.)                                                           *)
(***************************************************************************)
\* Every requested name is a one-component array of the line source.
LineScalars ==
    \A c \in 1..Len(call.array_names) :
        /\ call.array_names[c] \in DOMAIN CallSnapshot.cellData
        /\ CallSnapshot.cellData[call.array_names[c]].ncomp = 1

\* The raw samples inside the bounds of the call.
InBounds ==
    {k \in 1..Len(CallSnapshot.points) :
        LET x == CallSnapshot.points[k][call.x_direction + 1]
        IN  /\ (call.x_min.given => call.x_min.value <= x)
            /\ (call.x_max.given => x <= call.x_max.value)}

C12_LineSelection ==
    (call.op = "to_numpy_1d" /\ LineScalars) =>
        LET cell(i) == RawCellOf(result.data[1][i])
            M == Len(result.points)
        IN  /\ result.status = "ok"
            /\ Len(result.data) = Len(call.array_names)
            /\ M = Cardinality(InBounds)
            /\ \A c \in 1..Len(result.data) : Len(result.data[c]) = M
            /\ {cell(i) : i \in 1..M} = InBounds
            /\ \A i \in 1..M :
                  /\ result.points[i] =
                        CallSnapshot.points[cell(i)][call.x_direction + 1]
                  /\ \A c \in 1..Len(result.data) :
                        result.data[c][i] =
                            CallSnapshot.cellData[call.array_names[c]].vals[cell(i)]
            /\ (~call.x_min.given /\ ~call.x_max.given) =>
                  M = Len(CallSnapshot.points)

\* Three samples, of which the two with y = 1 lie inside [1, 1] and the
\* one with y = 0 outside; two values per channel were returned.
C12_Witness ==
    /\ call.op = "to_numpy_1d"
    /\ call.array_names = <<ScalarName, ScalarName>>
    /\ call.x_direction = 1
    /\ call.x_min = Bound(1) /\ call.x_max = Bound(1)
    /\ Len(CallSnapshot.points) = 3
    /\ result.status = "ok"
    /\ Len(result.points) = 2
    /\ result.data[1] # <<>>

(***************************************************************************)
(* C13.  As claimed: whatever the raw order of the samples, the x_values   *)
(* to_numpy_1d returns are in non-decreasing order.                        *)
(***************************************************************************)
C13_LineSorted ==
    (call.op = "to_numpy_1d" /\ result.status = "ok") =>
        \A i, j \in 1..Len(result.points) :
            i < j => result.points[i] <= result.points[j]

(***************************************************************************)
(* C14.  As claimed: to_numpy_1d answers a name ending in _X, _Y or _Z     *)
(* with that component of the vector field of the stripped name, and a     *)
(* name ending in _Magnitude with the KeyError that names it.              *)
(***************************************************************************)
C14_LineDecoding ==
    call.op = "to_numpy_1d" =>
        \A c \in 1..Len(call.array_names) :
            LET name == call.array_names[c]
            IN  /\ (/\ IsMagnitude(name)
                    /\ \A d \in 1..(c - 1) :
                          Resolves(CallSnapshot, call.array_names[d]))
                      => /\ result.status = "KeyError"
                         /\ name \in result.named
                /\ (/\ HasComponentSuffix(name)
                    /\ \A d \in 1..Len(call.array_names) :
                          Resolves(CallSnapshot, call.array_names[d]))
                      => /\ result.status = "ok"
                         /\ \A i \in 1..Len(result.points) :
                               result.data[c][i] % 10 = ComponentOf(name[Len(name)])

(***************************************************************************)
(* Specification SpecPartial: data sources that lose a field at one time   *)
(* coordinate, so that a later frame fails after earlier ones were built.  *)
(***************************************************************************)
\* The snapshot without one of its arrays.
Without(snapshot, name) ==
    [points |-> snapshot.points,
     cellData |-> [n \in DOMAIN snapshot.cellData \ {name} |->
                      snapshot.cellData[n]]]

\* The scalar field is missing from the output written at time `at`.
SourceLosing(pts, at) ==
    [t \in Times |-> IF t = at THEN Without(Snapshot(t, pts), ScalarName)
                     ELSE Snapshot(t, pts)]

PartialNamePool ==
    {ScalarName, VectorName \o <<"_X">>, VectorName \o <<"_Magnitude">>, <<"g">>}

PartialNameLists == SeqsUpTo(PartialNamePool, MaxNames) \ {<<>>}

InitPartial ==
    /\ \E pts \in NamesGeometries, at \in Times : solution = SourceLosing(pts, at)
    /\ TimestepValues = DeclaredTimes
    /\ InitCommon

NextPartial ==
    \/ Fresh /\ \E array_names \in PartialNameLists :
                    Call_to_numpy_point_list(array_names)
    \/ Fresh /\ \E array_names \in PartialNameLists :
                    Call_to_numpy_2d(array_names)
    \/ Fresh /\ \E array_names \in PartialNameLists :
                    Call_to_numpy_3d(array_names)
    \/ Fresh /\ \E array_names \in PartialNameLists, time_steps \in NamesTimeSteps :
                    Call_to_numpy_time_steps(array_names, time_steps)
    \/ Fresh /\ \E array_names \in PartialNameLists, time_steps \in NamesTimeSteps :
                    Call_to_numpy_time_steps_2d(array_names, time_steps)
    \/ Fresh /\ \E array_names \in PartialNameLists, time_steps \in NamesTimeSteps :
                    Call_to_numpy_time_steps_3d(array_names, time_steps)

SpecPartial == InitPartial /\ [][NextPartial]_vars

(***************************************************************************)
(* C15.  An extraction call in which some requested field fails to resolve *)
(* - the k-th of the list, in the first or in a later frame - raises: it   *)
(* returns no time coordinates, no points and no data, whatever was built  *)
(* for earlier fields and frames, and a time-series call stops at the      *)
(* first failing frame (the pipeline stays at that frame's time: no later  *)
(* frame is evaluated, none is retried).                                   *)
(***************************************************************************)
\* Some requested field does not resolve in the snapshot.
FailsIn(snapshot) ==
    \E c \in 1..Len(call.array_names) : ~Resolves(snapshot, call.array_names[c])

\* The positions in the list of time coordinates whose frame fails.
FailingFrames == {t \in 1..Len(UsedTimeSteps) : FailsIn(solution[UsedTimeSteps[t]])}

NothingReturned ==
    /\ result.status \notin {"ok", "none"}
    /\ result.times = <<>> /\ result.points = <<>> /\ result.data = <<>>

C15_NoPartialResult ==
    /\ (call.op \in SingleOps /\ FailsIn(CallSnapshot)) => NothingReturned
    /\ (call.op \in TimeOps /\ FailingFrames # {}) =>
          /\ NothingReturned
          /\ \E t \in FailingFrames :
                /\ \A u \in FailingFrames : t <= u
                /\ pipelineTime = UsedTimeSteps[t]

\* to_numpy_time_steps was asked for E_X and f; the frame of the first time
\* coordinate resolves both, the second frame has lost f, and the call
\* raised at the second frame.
C15_Witness ==
    /\ call.op = "to_numpy_time_steps"
    /\ call.array_names = <<VectorName \o <<"_X">>, ScalarName>>
    /\ UsedTimeSteps = <<1, 2>>
    /\ FailingFrames = {2}
    /\ result.status = "AttributeError"
    /\ pipelineTime = 2

(***************************************************************************)
(* Specification SpecCalls: successive extraction calls on one data        *)
(* source.                                                                 *)
(***************************************************************************)
\* Every call of lines 73-502 creates its pair of filters, so the filters
\* registered count the calls made.
CanCall == Len(registered) < Len(NewFilters) * MaxCalls

CallsNames == {<<ScalarName>>, <<VectorName \o <<"_X">>>>}

\* No list, or a single time coordinate.
CallsTimeSteps == {NoTimeSteps} \cup {TimeSteps(<<t>>) : t \in Times}

InitCalls ==
    /\ \E pts \in NamesGeometries : solution = Source(pts, "reversed", MaxT)
    /\ TimestepValues = DeclaredTimes
    /\ InitCommon

NextCalls ==
    \/ CanCall /\ \E array_names \in CallsNames :
                      Call_to_numpy_point_list(array_names)
    \/ CanCall /\ \E array_names \in CallsNames :
                      Call_to_numpy_2d(array_names)
    \/ CanCall /\ \E array_names \in CallsNames :
                      Call_to_numpy_3d(array_names)
    \/ CanCall /\ \E array_names \in CallsNames, time_steps \in CallsTimeSteps :
                      Call_to_numpy_time_steps(array_names, time_steps)
    \/ CanCall /\ \E array_names \in CallsNames, time_steps \in CallsTimeSteps :
                      Call_to_numpy_time_steps_2d(array_names, time_steps)
    \/ CanCall /\ \E array_names \in CallsNames, time_steps \in CallsTimeSteps :
                      Call_to_numpy_time_steps_3d(array_names, time_steps)

SpecCalls == InitCalls /\ [][NextCalls]_vars

(***************************************************************************)
(* C16.  As claimed: an extraction call leaves the pipeline objects        *)
(* registered with the visualization engine as they were before the call;  *)
(* the filters it created are gone when it returns or raises.              *)
(***************************************************************************)
C16_FiltersReleased == [][registered' = registered]_vars

(***************************************************************************)
(* C17.  As claimed: the result of an extraction call does not depend on   *)
(* the calls made before it.  For the entry points that read one snapshot  *)
(* this says that the result is the one the same call gives as the first   *)
(* call on the data source, when the pipeline stands at its initial time   *)
(* (InitCommon).                                                           *)
(***************************************************************************)
\* The result of the call as the first call on the data source.
AsFirstCall ==
    CASE call.op = "to_numpy_point_list" ->
            to_numpy_point_list(solution[1], call.array_names)
      [] call.op = "to_numpy_2d" -> to_numpy_2d(solution[1], call.array_names)
      [] call.op = "to_numpy_3d" -> to_numpy_3d(solution[1], call.array_names)
      [] call.op = "to_numpy_time_steps" ->
            to_numpy_time_steps(solution, TimestepValues, call.array_names,
                                call.time_steps)
      [] call.op = "to_numpy_time_steps_2d" ->
            to_numpy_time_steps_2d(solution, TimestepValues, call.array_names,
                                   call.time_steps)
      [] call.op = "to_numpy_time_steps_3d" ->
            to_numpy_time_steps_3d(solution, TimestepValues, call.array_names,
                                   call.time_steps)
      [] OTHER -> NoResult

C18_SortIdempotentStable ==
    (call.op = "to_numpy_point_list" /\ result.status = "ok") =>
        LET raw == CallSnapshot.points
            N == Len(raw)
            cell(i) == RawCellOf(result.data[1][i])
        IN  /\ IsSorted(raw) =>
                  /\ result.points = raw
                  /\ \A i \in 1..N : cell(i) = i
            /\ \A i, j \in 1..N :
                  (i < j /\ result.points[i] = result.points[j])
                      => cell(i) < cell(j)
            /\ SortedIndices(result.points) = Identity(N)
            /\ Take(result.points, SortedIndices(result.points)) = result.points

\* Two samples at one coordinate, with a sample of a smaller coordinate
\* listed between them: the duplicates were returned in their raw order.
C18_Witness ==
    /\ call.op = "to_numpy_point_list"
    /\ result.status = "ok"
    /\ CallSnapshot.points = <<<<1, 0, 1>>, <<0, 1, 1>>, <<1, 0, 1>>>>
    /\ result.points = <<<<0, 1, 1>>, <<1, 0, 1>>, <<1, 0, 1>>>>
    /\ RawCellOf(result.data[1][2]) = 1
    /\ RawCellOf(result.data[1][3]) = 3

(***************************************************************************)
(* utils.get_results_folder (utils.py lines 10-60).  A path is the         *)
(* sequence of its components; an absolute path starts with "/", the empty *)
(* sequence is the empty string.                                           *)
(***************************************************************************)
\* The environment of the process.
Home == <<"/", "home">>
DataDir == <<"/", "data">>
Cwd == <<"/", "cwd">>

\* os.path.expandvars: every $DATA is replaced by the value of the variable
RECURSIVE expandvars(_)
expandvars(path) ==
    IF path = <<>> THEN <<>>
    ELSE (IF Head(path) = "$DATA" THEN DataDir ELSE <<Head(path)>>)
             \o expandvars(Tail(path))

\* os.path.expanduser: a leading ~ is replaced by the home directory
expanduser(path) ==
    IF path # <<>> /\ Head(path) = "~" THEN Home \o Tail(path) ELSE path

\* os.path.isabs
isabs(path) == path # <<>> /\ Head(path) = "/"

\* os.path.join(a, b): b alone when it is absolute
join(a, b) == IF isabs(b) THEN b ELSE a \o b

\* os.path.abspath: the working directory for "" and in front of a relative
\* path
abspath(path) == IF isabs(path) THEN path ELSE join(Cwd, path)

\* A counter that stays at the argument it has used.
NextArgvSame(n) == n

\* A counter that passes over the argument after the one it has used.
NextArgvSkip(n) == n + 2

\* line 51: _results_folder_argv += 1
NextArgv(n) == n + 1

\* The value returned, whether input() was called, and the new value of
\* _results_folder_argv.
get_results_folder(path_prefix, sys_argv, n, answer) ==
    LET prefix == abspath(expanduser(expandvars(path_prefix)))
        taken == Len(sys_argv) > n
        from_argv == IF taken THEN sys_argv[n + 1] ELSE <<>>
        prompted == from_argv = <<>>
        given == IF prompted THEN answer ELSE from_argv
        results_folder == expanduser(expandvars(given))
    IN  [status |-> "ok",
         value |-> IF prefix # <<>> /\ ~isabs(results_folder)
                   THEN join(prefix, results_folder) ELSE results_folder,
         prompted |-> prompted,
         counter |-> IF taken THEN NextArgv(n) ELSE n]

Call_get_results_folder(path_prefix, answer) ==
    LET r == get_results_folder(path_prefix, argv, results_folder_argv, answer)
    IN  /\ call' = [op |-> "get_results_folder", array_names |-> <<>>,
                    time_steps |-> NoTimeSteps, path_prefix |-> path_prefix]
        /\ result' = [status |-> r.status, value |-> r.value,
                      prompted |-> r.prompted]
        /\ results_folder_argv' = r.counter
        /\ UNCHANGED <<solution, TimestepValues, pipelineTime, registered,
                       argv, prm_lines, frame>>

(***************************************************************************)
(* Specification SpecArgv: scripts started with up to MaxArgs arguments    *)
(* that ask for results folders.                                           *)
(***************************************************************************)
\* The folders a user passes or types: empty, relative, absolute, below the
\* home directory, below a directory named by a variable.
FolderPool == {<<>>, <<"out">>, <<"/", "abs">>, <<"~", "run">>, <<"$DATA", "run">>}

PrefixPool == {<<>>, <<"/", "pre">>, <<"rel">>, <<"~">>}

\* What the user types at the prompt.
Answers == FolderPool \ {<<>>}

InitArgv ==
    /\ solution = <<>>
    /\ TimestepValues = <<>>
    /\ InitPipeline
    /\ \E args \in SeqsUpTo(FolderPool, MaxArgs) : argv = <<<<"script">>>> \o args
    /\ results_folder_argv = 1
    /\ prm_lines = <<>>
    /\ frame = NoFrame

NextArgvCalls ==
    \E path_prefix \in PrefixPool, answer \in Answers :
        Call_get_results_folder(path_prefix, answer)

SpecArgv == InitArgv /\ [][NextArgvCalls]_vars

(***************************************************************************)
(* Vocabulary for results folders.                                         *)
(***************************************************************************)
\* A folder with ~ and environment variables expanded.
Expanded(folder) == expanduser(expandvars(folder))

\* Where a folder lies for a given path_prefix: an absolute folder is
\* itself, a relative one lies below the prefix made absolute (below the
\* working directory for the empty prefix).
Placed(path_prefix, folder) ==
    IF isabs(Expanded(folder)) THEN Expanded(folder)
    ELSE (IF isabs(Expanded(path_prefix)) THEN Expanded(path_prefix)
          ELSE Cwd \o Expanded(path_prefix)) \o Expanded(folder)

BeforeHash(line) ==
    LET hashes == {i \in 1..Len(line) : line[i] = "#"}
    IN  IF hashes = {} THEN line
        ELSE SubSeq(line, 1, (CHOOSE i \in hashes : \A j \in hashes : i <= j) - 1)

\* str.strip()
RECURSIVE strip(_)
strip(s) ==
    IF s = <<>> THEN s
    ELSE IF Head(s) = " " THEN strip(Tail(s))
    ELSE IF s[Len(s)] = " " THEN strip(SubSeq(s, 1, Len(s) - 1))
    ELSE s

\* str.split(sign): the pieces between the signs, all of them
RECURSIVE split(_, _)
split(s, sign) ==
    LET at == {i \in 1..Len(s) : s[i] = sign}
    IN  IF at = {} THEN <<s>>
        ELSE LET i == CHOOSE i \in at : \A j \in at : i <= j
             IN  <<SubSeq(s, 1, i - 1)>> \o split(SubSeq(s, i + 1, Len(s)), sign)

\* line.startswith("set "), line.startswith("subsection ")
startswith(line, word) == Len(line) >= 2 /\ line[1] = word /\ line[2] = " "

StrEntry(value) == [kind |-> "str", str |-> value, dict |-> <<>>]
DictEntry(d) == [kind |-> "dict", str |-> <<>>, dict |-> d]

\* prm_dict[key] = entry
Put(d, key, entry) ==
    [k \in DOMAIN d \cup {key} |-> IF k = key THEN entry ELSE d[k]]

\* The loop of lines 82-100 on the lines left, with the dict built so far:
\* the dict returned (or the exception) and the lines left in the list.
RECURSIVE prm_loop(_, _)
prm_loop(lines, prm_dict) ==
    IF lines = <<>> THEN [status |-> "ok", dict |-> prm_dict, rest |-> <<>>]
    ELSE LET line == strip(BeforeHash(Head(lines)))
             rest == Tail(lines)
         IN  IF line = <<>> THEN prm_loop(rest, prm_dict)
             ELSE IF startswith(line, "set")
             THEN LET key_value == split(Tail(line), "=")
                  IN  IF Len(key_value) < 2
                      THEN [status |-> "IndexError", dict |-> <<>>, rest |-> rest]
                      ELSE prm_loop(rest, Put(prm_dict, strip(key_value[1]),
                                              StrEntry(strip(key_value[2]))))
             ELSE IF startswith(line, "subsection")
             THEN LET sub == prm_loop(rest, <<>>)
                  IN  IF sub.status # "ok" THEN sub
                      ELSE prm_loop(sub.rest,
                                    Put(prm_dict, SubSeq(line, 3, Len(line)),
                                        DictEntry(sub.dict)))
             ELSE IF line = <<"end">>
             THEN [status |-> "ok", dict |-> prm_dict, rest |-> rest]
             ELSE prm_loop(rest, prm_dict)

prm_to_dict(lines) == prm_loop(lines, <<>>)

\* prm_lines.pop(0) works on the caller's list: the lines read are gone from
\* it when the call returns.
Call_prm_to_dict ==
    LET r == prm_to_dict(prm_lines)
    IN  /\ call' = [op |-> "prm_to_dict", array_names |-> <<>>,
                    time_steps |-> NoTimeSteps, prm_lines |-> prm_lines]
        /\ result' = [status |-> r.status, dict |-> r.dict]
        /\ prm_lines' = r.rest
        /\ UNCHANGED <<solution, TimestepValues, pipelineTime, registered,
                       argv, results_folder_argv, frame>>

(***************************************************************************)
(* Specification SpecPrm: parameter files of up to MaxLines lines.         *)
(***************************************************************************)
\* The lines of a parameter file, each with what it says:
\*   set a = x              set b c=y # n          subsection S
\*     end                  (blank)                # set a = z
\*   set a = x=y
PrmLinePool ==
    {[text |-> <<"set", " ", "a", " ", "=", " ", "x">>,
      kind |-> "set", key |-> <<"a">>, value |-> <<"x">>],
     [text |-> <<"set", " ", "b", " ", "c", "=", "y", " ", "#", " ", "n">>,
      kind |-> "set", key |-> <<"b", " ", "c">>, value |-> <<"y">>],
     [text |-> <<"subsection", " ", "S">>,
      kind |-> "subsection", key |-> <<"S">>, value |-> <<>>],
     [text |-> <<" ", " ", "end">>,
      kind |-> "end", key |-> <<>>, value |-> <<>>],
     [text |-> <<>>,
      kind |-> "ignored", key |-> <<>>, value |-> <<>>],
     [text |-> <<"#", " ", "set", " ", "a", " ", "=", " ", "z">>,
      kind |-> "ignored", key |-> <<>>, value |-> <<>>],
     [text |-> <<" ", "set", " ", "a", " ", "=", " ", "x", "=", "y">>,
      kind |-> "set", key |-> <<"a">>, value |-> <<"x", "=", "y">>]}

PrmFiles == SeqsUpTo({l.text : l \in PrmLinePool}, MaxLines)

InitPrm ==
    /\ solution = <<>>
    /\ TimestepValues = <<>>
    /\ InitPipeline
    /\ argv = <<<<"script">>>>
    /\ results_folder_argv = 1
    /\ prm_lines \in PrmFiles
    /\ frame = NoFrame

NextPrm == Uncalled /\ Call_prm_to_dict

SpecPrm == InitPrm /\ [][NextPrm]_vars

(***************************************************************************)
(* Vocabulary for parameter files: what a file says, read line by line.    *)
(***************************************************************************)
\* What a line of the file says.
Meaning(text) == CHOOSE m \in PrmLinePool : m.text = text

\* The names of the subsections open after the first n lines, outermost
\* first.
RECURSIVE OpenAfter(_, _)
OpenAfter(lines, n) ==
    IF n = 0 THEN <<>>
    ELSE LET open == OpenAfter(lines, n - 1)
             m == Meaning(lines[n])
         IN  IF m.kind = "subsection" THEN Append(open, m.key)
             ELSE IF m.kind = "end" /\ open # <<>>
             THEN SubSeq(open, 1, Len(open) - 1)
             ELSE open

\* Every end closes a subsection.
Balanced(lines) ==
    \A n \in 1..Len(lines) :
        Meaning(lines[n]).kind = "end" => OpenAfter(lines, n - 1) # <<>>

\* The lines that make an entry, and the place of the entry of line n: the
\* open subsections and then its key or name.
EntryLines(lines) ==
    {n \in 1..Len(lines) : Meaning(lines[n]).kind \in {"set", "subsection"}}

Place(lines, n) == Append(OpenAfter(lines, n - 1), Meaning(lines[n]).key)

\* No two lines write the same place.
WrittenOnce(lines) ==
    \A n, m \in EntryLines(lines) : n # m => Place(lines, n) # Place(lines, m)

NoEntry == [kind |-> "none", str |-> <<>>, dict |-> <<>>]

\* The entry of a nested dict at a place.
RECURSIVE Lookup(_, _)
Lookup(d, place) ==
    IF Head(place) \notin DOMAIN d THEN NoEntry
    ELSE IF Len(place) = 1 THEN d[Head(place)]
    ELSE IF d[Head(place)].kind # "dict" THEN NoEntry
    ELSE Lookup(d[Head(place)].dict, Tail(place))

\* The places of all entries of a nested dict.
RECURSIVE Places(_)
Places(d) ==
    UNION {{<<k>>} \cup (IF d[k].kind = "dict"
                         THEN {<<k>> \o p : p \in Places(d[k].dict)}
                         ELSE {}) : k \in DOMAIN d}

(***************************************************************************)
(* C20.  As claimed: for a parameter file whose ends all close a           *)
(* subsection and in which no place is written twice, prm_to_dict returns  *)
(* the dict that has, for every set line, the string value of the line     *)
(* under its key in the dict of the innermost open subsection, for every   *)
(* subsection line a dict under its name in the enclosing dict, and no     *)
(* other entry; comments and blank lines leave no trace.                   *)
(***************************************************************************)
C20_DictMirrorsFile ==
    LET lines == call.prm_lines
    IN  (call.op = "prm_to_dict" /\ Balanced(lines) /\ WrittenOnce(lines)) =>
            /\ result.status = "ok"
            /\ \A n \in EntryLines(lines) :
                  LET m == Meaning(lines[n])
                      entry == Lookup(result.dict, Place(lines, n))
                  IN  IF m.kind = "set" THEN entry = StrEntry(m.value)
                      ELSE entry.kind = "dict"
            /\ Places(result.dict) = {Place(lines, n) : n \in EntryLines(lines)}

(***************************************************************************)
(* PlotPropertiesVFP.create_lms_indices (plot_properties_vfp.py lines      *)
(* 147-175), followed through its loop.                                    *)
(***************************************************************************)
\* abs(m)
abs(m) == IF m < 0 THEN 0 - m ELSE m

\* An entry that keeps the sign of m.
LmsEntrySigned(l, m) == <<l, m, IF m <= 0 THEN 0 ELSE 1>>

\* lines 168-169: s = 0 if m <= 0 else 1; [l, abs(m), s]
LmsEntry(l, m) == <<l, abs(m), IF m <= 0 THEN 0 ELSE 1>>

\* lines 162-166: the locals before the first iteration
Start_create_lms_indices(expansion_order) ==
    /\ frame = NoFrame
    /\ frame' = [pc |-> "loop", expansion_order |-> expansion_order,
                 system_size |-> (expansion_order + 1) * (expansion_order + 1),
                 i |-> 0, l |-> 0, m |-> 0, lms_indices |-> <<>>]
    /\ call' = [op |-> "create_lms_indices", array_names |-> <<>>,
                time_steps |-> NoTimeSteps, expansion_order |-> expansion_order]
    /\ UNCHANGED <<solution, TimestepValues, pipelineTime, registered, result,
                   argv, results_folder_argv, prm_lines>>

\* lines 167-174: one iteration of "for _ in range(system_size)"
Step_create_lms_indices ==
    /\ frame.pc = "loop"
    /\ frame.i < frame.system_size
    /\ LET m == frame.m + 1
           wrap == m > frame.l
       IN  frame' = [frame EXCEPT
                        !.lms_indices = Append(@, LmsEntry(frame.l, frame.m)),
                        !.i = @ + 1,
                        !.l = IF wrap THEN @ + 1 ELSE @,
                        !.m = IF wrap THEN 0 - (frame.l + 1) ELSE m]
    /\ UNCHANGED <<solution, TimestepValues, pipelineTime, registered, call,
                   result, argv, results_folder_argv, prm_lines>>

\* line 175: return lms_indices
Return_create_lms_indices ==
    /\ frame.pc = "loop"
    /\ frame.i = frame.system_size
    /\ frame' = [frame EXCEPT !.pc = "done"]
    /\ result' = [status |-> "ok", value |-> frame.lms_indices]
    /\ UNCHANGED <<solution, TimestepValues, pipelineTime, registered, call,
                   argv, results_folder_argv, prm_lines>>

(***************************************************************************)
(* Specification SpecLms: create_lms_indices for the expansion orders      *)
(* 0..MaxOrder.                                                            *)
(***************************************************************************)
InitLms ==
    /\ solution = <<>>
    /\ TimestepValues = <<>>
    /\ InitPipeline
    /\ InitUtils

NextLms ==
    \/ \E expansion_order \in 0..MaxOrder :
           Start_create_lms_indices(expansion_order)
    \/ Step_create_lms_indices
    \/ Return_create_lms_indices

SpecLms == InitLms /\ [][NextLms]_vars

(***************************************************************************)
(* C21.  create_lms_indices(l_max) returns (l_max+1)^2 pairwise distinct   *)
(* triples [l, m, s] with 0 <= l <= l_max, 0 <= m <= l, s in {0, 1} and    *)
(* s = 1 only for m > 0, in non-decreasing l; the triples are exactly      *)
(* [l, m, 0] for m in 0..l and [l, m, 1] for m in 1..l, for every l.       *)
(***************************************************************************)
C21_LmsIndices ==
    (call.op = "create_lms_indices" /\ frame.pc = "done") =>
        LET l_max == call.expansion_order
            v == result.value
        IN  /\ Len(v) = (l_max + 1) * (l_max + 1)
            /\ \A i, j \in 1..Len(v) : i # j => v[i] # v[j]
            /\ \A i, j \in 1..Len(v) : i < j => v[i][1] <= v[j][1]
            /\ \A i \in 1..Len(v) :
                  /\ v[i][1] \in 0..l_max
                  /\ v[i][2] \in 0..v[i][1]
                  /\ v[i][3] \in {0, 1}
                  /\ v[i][3] = 1 => v[i][2] > 0
            /\ Range(v) =
                  {t \in (0..l_max) \X (0..l_max) \X {0} : t[2] <= t[1]} \cup
                  {t \in (0..l_max) \X (1..l_max) \X {1} : t[2] <= t[1]}

\* The nine triples of l_max = 2 were returned, [2, 2, 1] the last.
C21_Witness ==
    /\ call.op = "create_lms_indices"
    /\ call.expansion_order = 2
    /\ frame.pc = "done"
    /\ Len(result.value) = 9
    /\ result.value[2] = <<1, 1, 0>>
    /\ result.value[9] = <<2, 2, 1>>

(***************************************************************************)
(* Specification SpecShape: the four grid entry points on every point      *)
(* list, grids and others.                                                 *)
(***************************************************************************)
ShapeNames == {<<ScalarName>>}

InitShape ==
    /\ \E pts \in FreePointLists \cup GridPointLists :
          solution = Source(pts, "reversed", MaxT)
    /\ TimestepValues = DeclaredTimes
    /\ InitCommon

NextShape ==
    \/ Fresh /\ \E array_names \in ShapeNames : Call_to_numpy_2d(array_names)
    \/ Fresh /\ \E array_names \in ShapeNames : Call_to_numpy_3d(array_names)
    \/ Fresh /\ \E array_names \in ShapeNames :
                    Call_to_numpy_time_steps_2d(array_names, NoTimeSteps)
    \/ Fresh /\ \E array_names \in ShapeNames :
                    Call_to_numpy_time_steps_3d(array_names, NoTimeSteps)

SpecShape == InitShape /\ [][NextShape]_vars

(***************************************************************************)
(* Vocabulary for inferred shapes.                                         *)
(***************************************************************************)
\* The points the shape of the call is inferred from: the snapshot of the
\* call, of the first time coordinate for a time series.
ShapePoints == FirstSnapshot.points

\* The sizes of the two and of the three axes as the claim counts them:
\* the points that agree with the first sorted point on the other axes.
Sizes2 == <<InferredSize(ShapePoints, {2}), InferredSize(ShapePoints, {1})>>
Sizes3 == <<InferredSize(ShapePoints, {2, 3}), InferredSize(ShapePoints, {1, 3}),
            InferredSize(ShapePoints, {1, 2})>>

\* The numbers of distinct x, y and z values.
Distinct3 == <<Cardinality(AxisValues(ShapePoints, 1)),
               Cardinality(AxisValues(ShapePoints, 2)),
               Cardinality(AxisValues(ShapePoints, 3))>>

Ops2 == {"to_numpy_2d", "to_numpy_time_steps_2d"}
Ops3 == {"to_numpy_3d", "to_numpy_time_steps_3d"}

\* The spatial part of the shape of a result.
SpatialShape ==
    IF call.op \in TimeOps THEN SubSeq(result.shape, 3, Len(result.shape))
    ELSE result.shape

IsGridForCall ==
    IF call.op \in Ops2
    THEN /\ Len(ShapePoints) = Distinct3[1] * Distinct3[2]
         /\ {<<ShapePoints[k][1], ShapePoints[k][2]>> : k \in 1..Len(ShapePoints)}
                = AxisValues(ShapePoints, 1) \X AxisValues(ShapePoints, 2)
    ELSE IsFullGrid(ShapePoints)

\* The sizes the call infers.
SizesOfCall == IF call.op \in Ops2 THEN Sizes2 ELSE Sizes3

\* The spatial points of the result.
ResultPoints == result.points

\* The returned points are indexed as a grid: the shape is the number of
\* distinct values per axis and the point at [i][j]([k]) has the i-th x, the
\* j-th y (and the k-th z).
IndexedAsGrid ==
    LET Xs == AxisValues(ShapePoints, 1)
        Ys == AxisValues(ShapePoints, 2)
        Zs == AxisValues(ShapePoints, 3)
    IN  IF call.op \in Ops2
        THEN /\ SpatialShape = <<Distinct3[1], Distinct3[2]>>
             /\ \A i \in 1..Distinct3[1], j \in 1..Distinct3[2] :
                   /\ ResultPoints[i][j][1] = Nth(Xs, i)
                   /\ ResultPoints[i][j][2] = Nth(Ys, j)
        ELSE /\ SpatialShape = Distinct3
             /\ \A i \in 1..Distinct3[1], j \in 1..Distinct3[2],
                   k \in 1..Distinct3[3] :
                   ResultPoints[i][j][k] = <<Nth(Xs, i), Nth(Ys, j), Nth(Zs, k)>>

UpdateTimeStale(time_steps, i) ==
    IF i = 1 THEN time_steps[1] ELSE time_steps[i - 1]

\* lines 316-320: the time iteration i passes to UpdatePipeline
UpdateTime(time_steps, i) == time_steps[i]

\* lines 301-314: the effective time steps, both filters, the empty lists
Start_to_numpy_time_steps(op, array_names, time_steps) ==
    /\ frame = NoFrame
    /\ registered' = registered \o NewFilters
    /\ call' = [op |-> op, array_names |-> array_names,
                time_steps |-> time_steps]
    /\ frame' = [pc |-> "for",
                 time_steps |-> EffectiveTimeSteps(time_steps, TimestepValues),
                 i |-> 1, cell_centers |-> 0, cell_values |-> 0,
                 sorted_indices |-> <<>>, points |-> <<>>, data |-> <<>>,
                 points_array |-> <<>>, data_array |-> <<>>]
    /\ UNCHANGED <<solution, TimestepValues, pipelineTime, result,
                   argv, results_folder_argv, prm_lines>>

\* line 319: cell_centers.UpdatePipeline(time=time)
Update_cell_centers ==
    /\ frame.pc = "for"
    /\ frame.i <= Len(frame.time_steps)
    /\ frame' = [frame EXCEPT !.pc = "update_values",
                    !.cell_centers = UpdateTime(frame.time_steps, frame.i)]
    /\ pipelineTime' = UpdateTime(frame.time_steps, frame.i)
    /\ UNCHANGED <<solution, TimestepValues, registered, call, result,
                   argv, results_folder_argv, prm_lines>>

\* line 320: cell_values.UpdatePipeline(time=time)
Update_cell_values ==
    /\ frame.pc = "update_values"
    /\ frame' = [frame EXCEPT !.pc = "fetch_centers",
                    !.cell_values = UpdateTime(frame.time_steps, frame.i)]
    /\ pipelineTime' = UpdateTime(frame.time_steps, frame.i)
    /\ UNCHANGED <<solution, TimestepValues, registered, call, result,
                   argv, results_folder_argv, prm_lines>>

\* lines 323-332: fetch the cell centres, sort them
Fetch_cell_centers ==
    /\ frame.pc = "fetch_centers"
    /\ LET points == solution[frame.cell_centers].points
           sorted_indices == SortedIndicesFrame(points)
       IN  frame' = [frame EXCEPT !.pc = "fetch_values",
                        !.sorted_indices = sorted_indices,
                        !.points = Take(points, sorted_indices)]
    /\ UNCHANGED <<solution, TimestepValues, pipelineTime, registered, call,
                   result, argv, results_folder_argv, prm_lines>>

\* lines 335-367: fetch the cell values, fill data row by row; the first
\* row that raises ends the call
Fetch_cell_values ==
    /\ frame.pc = "fetch_values"
    /\ LET cellData == solution[frame.cell_values].cellData
           rows == [c \in 1..Len(call.array_names) |->
                       TimeStepsRow(cellData, call.array_names[c],
                                    frame.sorted_indices)]
           bad == FirstRaise(rows)
       IN  IF bad # 0
           THEN /\ frame' = [frame EXCEPT !.pc = "raised"]
                /\ result' = rows[bad]
           ELSE /\ frame' = [frame EXCEPT !.pc = "store",
                                !.data = [c \in 1..Len(rows) |-> rows[c].data]]
                /\ UNCHANGED result
    /\ UNCHANGED <<solution, TimestepValues, pipelineTime, registered, call,
                   argv, results_folder_argv, prm_lines>>

\* lines 369-370, and on to the next iteration
Store_frame ==
    /\ frame.pc = "store"
    /\ frame' = [frame EXCEPT !.pc = "for", !.i = @ + 1,
                    !.points_array = Append(@, frame.points),
                    !.data_array = Append(@, frame.data)]
    /\ UNCHANGED <<solution, TimestepValues, pipelineTime, registered, call,
                   result, argv, results_folder_argv, prm_lines>>

\* A variant that answers an empty list of frames with an empty array.
reshape_time_steps_2d_empty(r, array_names) ==
    IF r.points = <<>>
    THEN Return(r.times, <<>>, <<>>, <<0, Len(array_names), 0, 0>>)
    ELSE Raise("ValueError", {})

\* lines 416-430: what to_numpy_time_steps_2d does with the returned lists
reshape_time_steps_2d(r, array_names) ==
    LET points == r.points[1]
        size_x == CountAgree(points, {1})
        size_y == CountAgree(points, {0})
    IN  IF r.points = <<>> THEN Raise("IndexError", {})
        ELSE IF Inhomogeneous(r.data) THEN Raise("ValueError", {})
        ELSE IF ~CanReshape(Len(points), <<size_x, size_y>>)
        THEN Raise("ValueError", {})
        ELSE Return(r.times, Reshape2(points, size_x, size_y),
                    [t \in 1..Len(r.data) |-> [c \in 1..Len(array_names) |->
                        Reshape2(r.data[t][c], size_x, size_y)]],
                    <<Len(r.times), Len(array_names), size_x, size_y>>)

\* lines 475-502: what to_numpy_time_steps_3d does with the returned lists
reshape_time_steps_3d(r, array_names) ==
    LET points == r.points[1]
        size_x == CountAgree(points, {1, 2})
        size_y == CountAgree(points, {0, 2})
        size_z == CountAgree(points, {0, 1})
    IN  IF r.points = <<>> THEN Raise("IndexError", {})
        ELSE IF Inhomogeneous(r.data) THEN Raise("ValueError", {})
        ELSE IF ~CanReshape(Len(points), <<size_x, size_y, size_z>>)
        THEN Raise("ValueError", {})
        ELSE Return(r.times, Reshape3(points, size_x, size_y, size_z),
                    [t \in 1..Len(r.data) |-> [c \in 1..Len(array_names) |->
                        Reshape3(r.data[t][c], size_x, size_y, size_z)]],
                    <<Len(r.times), Len(array_names), size_x, size_y, size_z>>)

\* line 372: the loop is over, the three lists are returned; the 2D and 3D
\* variants go on with them
Return_to_numpy_time_steps ==
    /\ frame.pc = "for"
    /\ frame.i > Len(frame.time_steps)
    /\ frame' = [frame EXCEPT !.pc = "returned"]
    /\ LET r == Return(frame.time_steps, frame.points_array, frame.data_array,
                       <<Len(frame.time_steps)>>)
       IN  result' =
              IF call.op = "to_numpy_time_steps_2d"
              THEN reshape_time_steps_2d(r, call.array_names)
              ELSE IF call.op = "to_numpy_time_steps_3d"
              THEN reshape_time_steps_3d(r, call.array_names)
              ELSE r
    /\ UNCHANGED <<solution, TimestepValues, pipelineTime, registered, call,
                   argv, results_folder_argv, prm_lines>>

(***************************************************************************)
(* Specification SpecLoop: one call of a time-series entry point, followed *)
(* through its loop, on data sources whose geometry changes at one time.   *)
(***************************************************************************)
LoopOps == {"to_numpy_time_steps", "to_numpy_time_steps_2d",
            "to_numpy_time_steps_3d"}

LoopNames == GeomNames \cup {<<ScalarName, VectorName \o <<"_Magnitude">>>>}

LoopGrids == {<<1, 1, 1>>, <<2, 1, 1>>, <<2, 2, 1>>, <<2, 2, 2>>}

InitLoop ==
    /\ \E d \in LoopGrids :
          \/ /\ \E kind \in VariationKinds, at \in Times :
                   solution = Source(GridPoints(d, VtkOrder), kind, at)
             /\ TimestepValues = DeclaredTimes
          \/ /\ solution = StaticSource(GridPoints(d, VtkOrder))
             /\ TimestepValues = <<>>
    /\ InitCommon

NextLoop ==
    \/ \E op \in LoopOps, array_names \in LoopNames,
          time_steps \in TimeStepsArgs :
          Start_to_numpy_time_steps(op, array_names, time_steps)
    \/ Update_cell_centers
    \/ Update_cell_values
    \/ Fetch_cell_centers
    \/ Fetch_cell_values
    \/ Store_frame
    \/ Return_to_numpy_time_steps

SpecLoop == InitLoop /\ [][NextLoop]_vars

\* The loop is at iteration i, between its first and its last statement.
InIteration ==
    frame.pc \in {"update_values", "fetch_centers", "fetch_values", "store"}

\* The frames stored so far are the frames of the time steps before i, each
\* read from the snapshot of its own time coordinate.
StoredFrames ==
    /\ Len(frame.points_array) = frame.i - 1
    /\ Len(frame.data_array) = frame.i - 1
    /\ \A j \in 1..(frame.i - 1) :
          LET f == TimeStepsFrame(solution[frame.time_steps[j]],
                                  call.array_names)
          IN  /\ f.status = "ok"
              /\ frame.points_array[j] = f.points
              /\ frame.data_array[j] = f.data

\* C24: in to_numpy_time_steps the frames are processed one after another
\* in list order: in iteration i both filters are evaluated at
\* time_steps[i] before either is fetched, the points and all channel
\* values of frame i are read from that evaluation, and frame i is stored
\* before iteration i+1 evaluates anything, so that points[i] and data[i]
\* come from the same time coordinate; the 2D and 3D variants reshape only
\* after every frame is stored, and the call ends as the call taken as one
\* step does.
C24_SequentialFrames ==
    call.op \in LoopOps =>
        /\ frame.pc # "returned" => StoredFrames
        /\ (InIteration \/ frame.pc = "raised") =>
              frame.i \in 1..Len(frame.time_steps)
        /\ frame.pc \in {"fetch_centers", "fetch_values", "store", "raised"} =>
              /\ frame.cell_centers = frame.time_steps[frame.i]
              /\ frame.cell_values = frame.time_steps[frame.i]
        /\ frame.pc \in {"fetch_values", "store", "raised"} =>
              frame.points =
                 Take(solution[frame.time_steps[frame.i]].points,
                      SortedIndicesFrame(
                          solution[frame.time_steps[frame.i]].points))
        /\ frame.pc = "store" =>
              LET f == TimeStepsFrame(solution[frame.time_steps[frame.i]],
                                      call.array_names)
              IN  f.status = "ok" /\ frame.points = f.points
                                  /\ frame.data = f.data
        /\ (frame.pc = "for" \/ InIteration) => result = NoResult
        /\ frame.pc = "returned" =>
              /\ Len(frame.points_array) = Len(frame.time_steps)
              /\ Len(frame.data_array) = Len(frame.time_steps)
        /\ frame.pc \in {"returned", "raised"} =>
              result =
                 IF call.op = "to_numpy_time_steps_2d"
                 THEN to_numpy_time_steps_2d(solution, TimestepValues,
                                             call.array_names, call.time_steps)
                 ELSE IF call.op = "to_numpy_time_steps_3d"
                 THEN to_numpy_time_steps_3d(solution, TimestepValues,
                                             call.array_names, call.time_steps)
                 ELSE to_numpy_time_steps(solution, TimestepValues,
                                          call.array_names, call.time_steps)

\* The second frame of a call is about to be stored, read at a time whose
\* snapshot differs from the first frame's.
C24_Witness ==
    /\ call.op = "to_numpy_time_steps_2d"
    /\ frame.pc = "store"
    /\ frame.i = 2
    /\ frame.time_steps = <<2, 1>>
    /\ Len(frame.points_array) = 1
    /\ frame.points_array[1] # frame.points
    /\ frame.data[1][1] \div 1000 = 1
    /\ frame.points_array[1] # <<>>

(***************************************************************************)
(* Specification SpecSingle: the collector called with one time            *)
(* coordinate, and the single-snapshot extractor, for every field list.    *)
(***************************************************************************)
NextSingle ==
    \/ Fresh /\ \E array_names \in NameLists :
                    Call_to_numpy_point_list(array_names)
    \/ Fresh /\ \E array_names \in NameLists, t \in Times :
                    Call_to_numpy_time_steps(array_names, TimeSteps(<<t>>))

SpecSingle == InitNames /\ [][NextSingle]_vars

\* The single-snapshot extractor on the data source evaluated at time t.
PointListAt(t) == to_numpy_point_list(solution[t], call.array_names)

\* The collector called with the single time coordinate t.
TimeStepsAt(t) ==
    to_numpy_time_steps(solution, TimestepValues, call.array_names,
                        TimeSteps(<<t>>))

\* The collector's outcome c is the extractor's outcome p as its only frame,
\* or the same exception.
SameAsOnlyFrame(c, p, t) ==
    IF p.status = "ok"
    THEN /\ c.status = "ok"
         /\ c.times = <<t>>
         /\ c.points = <<p.points>>
         /\ c.data = <<p.data>>
    ELSE /\ c.status = p.status
         /\ c.named = p.named
         /\ c.points = <<>> /\ c.data = <<>>

\* C25: to_numpy_time_steps called with the single time coordinate t
\* returns as its only frame exactly the (points, data) pair that
\* to_numpy_point_list returns on the data source evaluated at t, and
\* raises in exactly the same cases.
C25_SingleFrameEquivalence ==
    /\ (call.op = "to_numpy_time_steps" /\ Len(call.time_steps.list) = 1) =>
          SameAsOnlyFrame(result, PointListAt(call.time_steps.list[1]),
                          call.time_steps.list[1])
    /\ call.op = "to_numpy_point_list" =>
          SameAsOnlyFrame(TimeStepsAt(pipelineTime), result, pipelineTime)

\* The collector returned one frame of an unsorted geometry with a vector
\* component, read at the last time coordinate.
C25_Witness ==
    /\ call.op = "to_numpy_time_steps"
    /\ call.time_steps.list = <<MaxT>>
    /\ call.array_names = <<VectorName \o <<"_Y">>, ScalarName>>
    /\ result.status = "ok"
    /\ Len(result.points) = 1
    /\ result.points[1] # solution[MaxT].points
    /\ result.points = <<PointListAt(MaxT).points>>

(***************************************************************************)
(* C26.  to_numpy_2d applied to a full Cartesian grid of nx x ny x nz      *)
(* points infers size_x = nx * nz and size_y = ny * nz; for nz > 1 their   *)
(* product nx * ny * nz^2 differs from N = nx * ny * nz and the call       *)
(* raises the reshape error, only for nz = 1 does it return.               *)
(***************************************************************************)
C26_SecondAxisLayersRaise ==
    LET nx == Distinct3[1]
        ny == Distinct3[2]
        nz == Distinct3[3]
    IN  (call.op = "to_numpy_2d" /\ IsFullGrid(ShapePoints)) =>
           /\ Len(ShapePoints) = nx * ny * nz
           /\ Sizes2 = <<nx * nz, ny * nz>>
           /\ nz > 1 => /\ Sizes2[1] * Sizes2[2] = nx * ny * nz * nz
                        /\ Sizes2[1] * Sizes2[2] # Len(ShapePoints)
                        /\ result.status = "ValueError"
                        /\ result.points = <<>> /\ result.data = <<>>
           /\ nz = 1 => /\ result.status = "ok"
                        /\ result.shape = <<nx, ny>>

\* to_numpy_2d raised on a 2 x 1 x 2 grid.
C26_Witness ==
    /\ call.op = "to_numpy_2d"
    /\ IsFullGrid(ShapePoints)
    /\ Distinct3 = <<2, 1, 2>>
    /\ Sizes2 = <<4, 2>>
    /\ result.status = "ValueError"

(***************************************************************************)
(* C27.  When the effective list of time coordinates is empty (none passed *)
(* and the data source declares none), to_numpy_time_steps returns three   *)
(* empty sequences without reading any field, while the 2D and 3D          *)
(* variants raise when they take the first frame's points; they never      *)
(* return an array with a time axis of length 0.                           *)
(***************************************************************************)
\* No time coordinate is passed and the data source declares none.
NoTimeCoordinates ==
    /\ ~call.time_steps.given \/ call.time_steps.list = <<>>
    /\ TimestepValues = <<>>

C27_NoTimeCoordinates ==
    call.op \in LoopOps =>
        /\ NoTimeCoordinates <=> frame.time_steps = <<>>
        /\ NoTimeCoordinates =>
              /\ frame.pc \in {"for", "returned"}
              /\ frame.cell_centers = 0 /\ frame.cell_values = 0
              /\ pipelineTime = 1
              /\ frame.points_array = <<>> /\ frame.data_array = <<>>
              /\ frame.pc = "returned" =>
                    IF call.op = "to_numpy_time_steps"
                    THEN /\ result.status = "ok"
                         /\ result.times = <<>>
                         /\ result.points = <<>>
                         /\ result.data = <<>>
                    ELSE /\ result.status = "IndexError"
                         /\ result.data = <<>>
        /\ (call.op # "to_numpy_time_steps" /\ result.status = "ok") =>
              /\ Len(result.times) > 0
              /\ result.shape[1] > 0
              /\ Len(result.data) > 0

\* to_numpy_time_steps_3d was called without time steps, with a field list
\* that holds a magnitude, on a data source that declares none, and raised
\* on the first frame's points.
C27_Witness ==
    /\ call.op = "to_numpy_time_steps_3d"
    /\ call.time_steps = NoTimeSteps
    /\ call.array_names = <<ScalarName, VectorName \o <<"_Magnitude">>>>
    /\ TimestepValues = <<>>
    /\ frame.pc = "returned"
    /\ frame.cell_values = 0
    /\ result.status = "IndexError"

(***************************************************************************)
(* Specification SpecArgvSeq: the calls of get_results_folder of one       *)
(* process, counted: call.nth is the number of calls made so far.          *)
(***************************************************************************)
Nth_get_results_folder(path_prefix, answer) ==
    LET r == get_results_folder(path_prefix, argv, results_folder_argv, answer)
    IN  /\ call' = [op |-> "get_results_folder", array_names |-> <<>>,
                    time_steps |-> NoTimeSteps, path_prefix |-> path_prefix,
                    nth |-> IF call.op = "get_results_folder"
                            THEN call.nth + 1 ELSE 1]
        /\ result' = [status |-> r.status, value |-> r.value,
                      prompted |-> r.prompted]
        /\ results_folder_argv' = r.counter
        /\ UNCHANGED <<solution, TimestepValues, pipelineTime, registered,
                       argv, prm_lines, frame>>

\* A script asks for at most two folders more than it has arguments.
CallsLeft == call.op = "get_results_folder" => call.nth < MaxArgs + 2

NextArgvSeq ==
    CallsLeft /\ \E path_prefix \in PrefixPool, answer \in Answers :
                    Nth_get_results_folder(path_prefix, answer)

SpecArgvSeq == InitArgv /\ [][NextArgvSeq]_vars

\* The number of command-line arguments, and of calls made so far.
NumArgs == Len(argv) - 1
NumCalls == IF call.op = "get_results_folder" THEN call.nth ELSE 0

RECURSIVE CloseAll(_)
CloseAll(stack) ==
    LET n == Len(stack)
    IN  IF n = 1 THEN stack
        ELSE CloseAll(Append(SubSeq(stack, 1, n - 2),
                             [stack[n - 1] EXCEPT !.prm_dict =
                                 Put(@, stack[n].subsection,
                                     DictEntry(stack[n].prm_dict))]))

\* lines 93-94 on the return of the recursive call: the dict returned is
\* stored in the caller's prm_dict under the name of the subsection
Close(stack) ==
    LET n == Len(stack)
    IN  Append(SubSeq(stack, 1, n - 2),
               [stack[n - 1] EXCEPT !.prm_dict =
                   Put(@, stack[n].subsection, DictEntry(stack[n].prm_dict))])

\* line 80: the top-level call begins with an empty prm_dict
Start_prm_to_dict ==
    /\ frame = NoFrame
    /\ frame' = [pc |-> "while",
                 stack |-> <<[subsection |-> <<>>, prm_dict |-> <<>>]>>]
    /\ call' = [op |-> "prm_to_dict", array_names |-> <<>>,
                time_steps |-> NoTimeSteps, prm_lines |-> prm_lines]
    /\ UNCHANGED <<solution, TimestepValues, pipelineTime, registered, result,
                   argv, results_folder_argv, prm_lines>>

\* lines 85-97 on one line of the list: the branch of the if-chain it takes
\* and, for a set line, its key and value, for a subsection line, its name
ReadLine(text) ==
    LET line == strip(BeforeHash(text))
        key_value == split(Tail(line), "=")
    IN  IF line = <<>> THEN [branch |-> "continue", key |-> <<>>, value |-> <<>>]
        ELSE IF startswith(line, "set")
        THEN IF Len(key_value) < 2
             THEN [branch |-> "IndexError", key |-> <<>>, value |-> <<>>]
             ELSE [branch |-> "set", key |-> strip(key_value[1]),
                   value |-> strip(key_value[2])]
        ELSE IF startswith(line, "subsection")
        THEN [branch |-> "subsection", key |-> SubSeq(line, 3, Len(line)),
              value |-> <<>>]
        ELSE IF line = <<"end">>
        THEN [branch |-> "end", key |-> <<>>, value |-> <<>>]
        ELSE [branch |-> "unknown", key |-> <<>>, value |-> <<>>]

\* ReadLine for every line a parameter file of the model is written with.
LinesRead == [text \in {l.text : l \in PrmLinePool} |-> ReadLine(text)]

\* lines 82-98: one iteration of "while prm_lines" in the innermost
\* invocation
Pop_prm_line ==
    /\ frame.pc = "while"
    /\ prm_lines # <<>>
    /\ prm_lines' = Tail(prm_lines)
    /\ LET read == LinesRead[Head(prm_lines)]
           n == Len(frame.stack)
       IN  IF read.branch = "set"
           THEN /\ frame' = [frame EXCEPT !.stack[n].prm_dict =
                                Put(@, read.key, StrEntry(read.value))]
                /\ UNCHANGED result
           ELSE IF read.branch = "IndexError"
           THEN /\ frame' = [frame EXCEPT !.pc = "raised"]
                /\ result' = [status |-> "IndexError", dict |-> <<>>]
           ELSE IF read.branch = "subsection"
           THEN /\ frame' = [frame EXCEPT !.stack =
                                Append(@, [subsection |-> read.key,
                                           prm_dict |-> <<>>])]
                /\ UNCHANGED result
           ELSE IF read.branch = "end" /\ n > 1
           THEN /\ frame' = [frame EXCEPT !.stack = Close(@)]
                /\ UNCHANGED result
           ELSE IF read.branch = "end"
           THEN /\ frame' = [frame EXCEPT !.pc = "done"]
                /\ result' = [status |-> "ok", dict |-> frame.stack[1].prm_dict]
           ELSE UNCHANGED <<frame, result>>
    /\ UNCHANGED <<solution, TimestepValues, pipelineTime, registered, call,
                   argv, results_folder_argv>>

\* line 100: the list is empty, the innermost invocation returns
Return_prm_dict ==
    /\ frame.pc = "while"
    /\ prm_lines = <<>>
    /\ IF Len(frame.stack) > 1
       THEN /\ frame' = [frame EXCEPT !.stack = Close(@)]
            /\ UNCHANGED result
       ELSE /\ frame' = [frame EXCEPT !.pc = "done"]
            /\ result' = [status |-> "ok", dict |-> frame.stack[1].prm_dict]
    /\ UNCHANGED <<solution, TimestepValues, pipelineTime, registered, call,
                   argv, results_folder_argv, prm_lines>>

(***************************************************************************)
(* Specification SpecPrmSteps: one call of prm_to_dict on a parameter file *)
(* of up to MaxLines lines, followed line by line.  The interpreter goes   *)
(* on to the next statement whenever there is one.                         *)
(***************************************************************************)
NextPrmSteps ==
    \/ Start_prm_to_dict
    \/ Pop_prm_line
    \/ Return_prm_dict

SpecPrmSteps == InitPrm /\ [][NextPrmSteps]_vars /\ WF_vars(NextPrmSteps)

\* The number of lines the call has taken from the list.
Consumed == Len(call.prm_lines) - Len(prm_lines)

\* The names of the subsections whose invocations have not returned.
StackNames == [i \in 1..(Len(frame.stack) - 1) |-> frame.stack[i + 1].subsection]

\* The first end with no open subsection, 0 when there is none.
UnmatchedEnd(lines) ==
    LET at == {n \in 1..Len(lines) :
                  /\ Meaning(lines[n]).kind = "end"
                  /\ OpenAfter(lines, n - 1) = <<>>}
    IN  IF at = {} THEN 0 ELSE CHOOSE n \in at : \A m \in at : n <= m

IsPrefix(s, t) == Len(s) <= Len(t) /\ s = SubSeq(t, 1, Len(s))

\* C29: prm_to_dict consumes the caller's list in place, one line per step,
\* and always terminates; after a call on balanced input the list is empty;
\* each end closes exactly the innermost open subsection; an end with no
\* open subsection stops the top-level call, leaving every following line
\* in the list and out of the result; a subsection still open at the end of
\* the input is returned as if closed.
C29_ConsumesInPlace ==
    /\ [][\/ prm_lines' = prm_lines
          \/ prm_lines # <<>> /\ prm_lines' = Tail(prm_lines)]_vars
    /\ [](call.op = "prm_to_dict" =>
            LET lines == call.prm_lines
                stop == UnmatchedEnd(lines)
                open == OpenAfter(lines, Len(lines))
            IN  /\ prm_lines = SubSeq(lines, Consumed + 1, Len(lines))
                /\ frame.pc = "while" =>
                      /\ stop = 0 \/ Consumed < stop
                      /\ IF prm_lines # <<>>
                         THEN StackNames = OpenAfter(lines, Consumed)
                         ELSE IsPrefix(StackNames, open)
                /\ frame.pc = "done" =>
                      /\ result.status = "ok"
                      /\ result.dict = prm_to_dict(lines).dict
                      /\ prm_lines = prm_to_dict(lines).rest
                      /\ Balanced(lines) <=> stop = 0
                      /\ stop = 0 =>
                            /\ prm_lines = <<>>
                            /\ open # <<>> =>
                                  Lookup(result.dict, open).kind = "dict"
                      /\ stop # 0 =>
                            /\ prm_lines = SubSeq(lines, stop + 1, Len(lines))
                            /\ Places(result.dict) \subseteq
                                  {Place(lines, n) :
                                      n \in EntryLines(lines) \cap 1..stop})
    /\ <>(frame.pc = "done")

\* A file with a subsection closed by its end, a second end, and a set line
\* after it: the call is over, the set line is left in the list and the
\* dict holds the subsection only.
C29_Witness ==
    /\ call.op = "prm_to_dict"
    /\ frame.pc = "done"
    /\ Len(call.prm_lines) = 4
    /\ UnmatchedEnd(call.prm_lines) = 3
    /\ Meaning(call.prm_lines[4]).kind = "set"
    /\ Len(prm_lines) = 1
    /\ DOMAIN result.dict = {<<"S">>}
=============================================================================
